---- MODULE Spec2Model ----
(***************************************************************************)
(* B2B marketing attribution: the engine (b2b_attribution_engine.py), its  *)
(* analyzer and the service facade (attribution_service.py).               *)
(*                                                                         *)
(* Numbers.  The code computes with Python floats; the model computes with *)
(* exact rationals <<n, d>> (d > 0, lowest terms), so that sums and        *)
(* quotients are exact.  Timestamps are whole days.                        *)
(***************************************************************************)
EXTENDS Integers, Sequences, FiniteSets, TLC

VARIABLES
    lead_data,          \* List[LeadData] handed to the engine
    opportunity_data,   \* List[OpportunityData] handed to the engine
    touchpoint_data,    \* List[TouchpointData] handed to the engine
    factors,            \* the five factor maps handed to the combiner
    weights,            \* the weight vector handed to the combiner (NoWeights = None)
    call,               \* the last engine call: [op |-> name, result |-> value]
    db,                 \* the rows of the storage: touchpoints, customers, conversions
    request,            \* the arguments of the service call
    pc,                 \* where the service coroutine is suspended, or how it ended
    loaded,             \* the rows the queries have returned so far
    session,            \* db_session: records added, records committed
    outcome,            \* what the caller gets: a result, an error, a cancellation
    cancel_requested,   \* the caller has cancelled the task
    events              \* the calls made so far, in order

engine_vars == <<lead_data, opportunity_data, touchpoint_data, factors, weights, call>>
service_vars == <<db, request, pc, loaded, session, outcome, cancel_requested, events>>
vars == <<engine_vars, service_vars>>

(***************************************************************************)
(* Bounds of the model.                                                    *)
(***************************************************************************)
MaxTouchpoints == 2
MaxOpportunities == 2

(***************************************************************************)
(* Exact rational arithmetic.                                              *)
(***************************************************************************)
Abs(x) == IF x < 0 THEN -x ELSE x

RECURSIVE GCD(_, _)
GCD(a, b) == IF b = 0 THEN a ELSE GCD(b, a % b)

Norm(n, d) ==
    LET s == IF d < 0 THEN -1 ELSE 1
        g == GCD(Abs(n), Abs(d))
    IN  <<(s * n) \div g, (s * d) \div g>>

Rat(n, d) == Norm(n, d)
Zero == <<0, 1>>
One == <<1, 1>>
\* sums over the least common denominator, products after cross-cancelling
RAdd(p, q) ==
    LET g == GCD(p[2], q[2])
    IN  Norm(p[1] * (q[2] \div g) + q[1] * (p[2] \div g), (p[2] \div g) * q[2])
RNeg(p) == <<-p[1], p[2]>>
RSub(p, q) == RAdd(p, RNeg(q))
RMul(p, q) ==
    LET g1 == GCD(Abs(p[1]), q[2])
        g2 == GCD(Abs(q[1]), p[2])
    IN  IF p[1] = 0 \/ q[1] = 0 THEN Zero
        ELSE Norm((p[1] \div g1) * (q[1] \div g2), (p[2] \div g2) * (q[2] \div g1))
\* division by a rational that is not zero
RDiv(p, q) == RMul(p, Norm(q[2], q[1]))
\* a quotient with denominator 0 is float('inf'), above every other number
RLt(p, q) ==
    IF p[2] = 0 THEN FALSE
    ELSE IF q[2] = 0 THEN TRUE
    ELSE LET g == GCD(p[2], q[2])
         IN  p[1] * (q[2] \div g) < q[1] * (p[2] \div g)
RLe(p, q) == ~RLt(q, p)
RMax(p, q) == IF RLt(p, q) THEN q ELSE p
RMin(p, q) == IF RLt(q, p) THEN q ELSE p

RECURSIVE RSumOver(_, _)
\* sum of f[k] over the keys k in S
RSumOver(f, S) ==
    IF S = {} THEN Zero
    ELSE LET k == CHOOSE x \in S : TRUE
         IN  RAdd(f[k], RSumOver(f, S \ {k}))

\* Python dict: a function from its key set; dict.get(k, 0)
EmptyMap == [k \in {} |-> Zero]
Get(m, k) == IF k \in DOMAIN m THEN m[k] ELSE Zero
\* m2 written over m1: every key of m2 is (re)assigned, as d[k] = v does
Assign(m1, m2) ==
    [k \in (DOMAIN m1) \cup (DOMAIN m2) |-> IF k \in DOMAIN m2 THEN m2[k] ELSE m1[k]]

(***************************************************************************)
(* Constant tables of the engine (B2BMarketingAttributionEngine.__init__). *)
(***************************************************************************)
TouchpointTypes ==
    {"content_download", "webinar_attendance", "demo_request", "trade_show",
     "sales_call", "email_engagement", "website_visit", "social_engagement",
     "direct_mail", "referral"}

B2BStageTypes ==
    {"awareness", "interest", "consideration", "intent", "evaluation", "purchase"}

touchpoint_type_weights ==
    [t \in TouchpointTypes |->
        CASE t = "demo_request"       -> Rat(15, 10)
          [] t = "sales_call"         -> Rat(14, 10)
          [] t = "webinar_attendance" -> Rat(12, 10)
          [] t = "content_download"   -> Rat(11, 10)
          [] t = "trade_show"         -> Rat(13, 10)
          [] t = "email_engagement"   -> Rat(8, 10)
          [] t = "website_visit"      -> Rat(6, 10)
          [] t = "social_engagement"  -> Rat(7, 10)
          [] t = "direct_mail"        -> Rat(9, 10)
          [] t = "referral"           -> Rat(16, 10)]

stage_progression_weights ==
    [s \in B2BStageTypes |->
        CASE s = "awareness"     -> Rat(8, 10)
          [] s = "interest"      -> Rat(10, 10)
          [] s = "consideration" -> Rat(12, 10)
          [] s = "intent"        -> Rat(14, 10)
          [] s = "evaluation"    -> Rat(15, 10)
          [] s = "purchase"      -> Rat(13, 10)]

lead_quality_multipliers ==
    [q \in {"A", "B", "C", "D"} |->
        CASE q = "A" -> Rat(15, 10)
          [] q = "B" -> Rat(12, 10)
          [] q = "C" -> Rat(10, 10)
          [] q = "D" -> Rat(7, 10)]

\* dict.get(key, 1.0) on the tables
TypeWeight(t) ==
    IF t \in DOMAIN touchpoint_type_weights THEN touchpoint_type_weights[t] ELSE One
StageWeight(s) ==
    IF s \in DOMAIN stage_progression_weights THEN stage_progression_weights[s] ELSE One
QualityMultiplier(q) ==
    IF q \in DOMAIN lead_quality_multipliers THEN lead_quality_multipliers[q] ELSE One

\* Optional[T]: None is the empty sequence, a value v is <<v>>
None == <<>>
Some(v) == <<v>>

(***************************************************************************)
(* calculate_b2b_time_decay                                                *)
(***************************************************************************)
\* math.exp(-x) for a rational x >= 0.  exp has no rational value but at 0;
\* the model uses 1 / (1 + x + x^2/2), which like exp(-x) is 1 at 0,
\* positive everywhere and strictly decreasing in x.
ExpNeg(x) ==
    RDiv(One, RAdd(One, RAdd(x, RDiv(RMul(x, x), Rat(2, 1)))))

\* indices of the touchpoints of an account, in list order
AccountTouchpoints(tps, account_id) ==
    {i \in 1..Len(tps) : tps[i].account_id = account_id}

\* d[touchpoint_id] = v in list order: the last touchpoint of an id stays
LastWithId(tps, idx, id) ==
    CHOOSE i \in idx :
        /\ tps[i].touchpoint_id = id
        /\ \A j \in idx : tps[j].touchpoint_id = id => j <= i

\* a slip of the code: the gap of a touchpoint after the conversion date is not
\* clipped to zero
TimeDecayWeightUnclipped(tp, opp) ==
    LET avg_sales_cycle_days == 180
        cycle_days == IF opp.sales_cycle_days # 0 THEN opp.sales_cycle_days
                      ELSE avg_sales_cycle_days
        half_life_days == RMax(Rat(cycle_days * 3, 10), Rat(14, 1))
        conversion_date == IF opp.close_date # None THEN opp.close_date[1]
                           ELSE opp.created_date
        diff == conversion_date - tp.timestamp
    IN  RMul(ExpNeg(RDiv(Rat(diff, 1), half_life_days)),
             TypeWeight(tp.touchpoint_type))

\* the weight of one touchpoint for one opportunity (loop body, lines 217-228)
TimeDecayWeight(tp, opp) ==
    LET avg_sales_cycle_days == 180
        cycle_days == IF opp.sales_cycle_days # 0 THEN opp.sales_cycle_days
                      ELSE avg_sales_cycle_days
        half_life_days == RMax(Rat(cycle_days * 3, 10), Rat(14, 1))
        conversion_date == IF opp.close_date # None THEN opp.close_date[1]
                           ELSE opp.created_date
        diff == conversion_date - tp.timestamp
        days_to_conversion == IF diff > 0 THEN diff ELSE 0
    IN  RMul(ExpNeg(RDiv(Rat(days_to_conversion, 1), half_life_days)),
             TypeWeight(tp.touchpoint_type))

\* a slip of the code: the weights scaled by the amount without normalizing
TimeDecayUnnormalized(tps, opp) ==
    LET idx == AccountTouchpoints(tps, opp.account_id)
        ids == {tps[i].touchpoint_id : i \in idx}
    IN  [id \in ids |->
            RMul(TimeDecayWeight(tps[LastWithId(tps, idx, id)], opp), Rat(opp.amount, 1))]

\* what one opportunity writes into attribution_weights (lines 198-233)
TimeDecayOfOpportunity(tps, opp) ==
    LET idx == AccountTouchpoints(tps, opp.account_id)
        w == [i \in idx |-> TimeDecayWeight(tps[i], opp)]
        ids == {tps[i].touchpoint_id : i \in idx}
        total_weight == RSumOver(w, idx)
    IN  IF idx = {} THEN EmptyMap
        ELSE IF RLt(Zero, total_weight)
             THEN [id \in ids |->
                     RMul(RDiv(w[LastWithId(tps, idx, id)], total_weight),
                          Rat(opp.amount, 1))]
             ELSE EmptyMap

RECURSIVE TimeDecayLoop(_, _, _, _)
TimeDecayLoop(tps, opps, k, acc) ==
    IF k > Len(opps) THEN acc
    ELSE TimeDecayLoop(tps, opps, k + 1,
                       Assign(acc, TimeDecayOfOpportunity(tps, opps[k])))

calculate_b2b_time_decay(tps, opps) == TimeDecayLoop(tps, opps, 1, EmptyMap)

(***************************************************************************)
(* calculate_lead_quality_impact                                           *)
(***************************************************************************)
\* lead_lookup = {lead.lead_id: lead ...}: the last lead of an id stays
LeadLookup(leads, lead_id) ==
    LET idx == {i \in 1..Len(leads) : leads[i].lead_id = lead_id}
    IN  IF idx = {} THEN None
        ELSE Some(leads[CHOOSE i \in idx : \A j \in idx : j <= i])

LeadQualityWeight(tp, lead) ==
    LET base_weight == Rat(tp.engagement_score, 100)
        quality_multiplier == QualityMultiplier(lead.lead_quality_tier)
        score_multiplier == RMin(Rat(lead.lead_score, 100), Rat(2, 1))
        demo_bonus == RAdd(One, Rat(lead.demographic_score, 1000))
        firmo_bonus == RAdd(One, Rat(lead.firmographic_score, 1000))
    IN  RMul(RMul(RMul(RMul(base_weight, quality_multiplier), score_multiplier),
                  demo_bonus), firmo_bonus)

calculate_lead_quality_impact(leads, tps) ==
    LET idx == {i \in 1..Len(tps) : LeadLookup(leads, tps[i].lead_id) # None}
        ids == {tps[i].touchpoint_id : i \in idx}
    IN  [id \in ids |->
            LET tp == tps[LastWithId(tps, idx, id)]
            IN  LeadQualityWeight(tp, LeadLookup(leads, tp.lead_id)[1])]

(***************************************************************************)
(* calculate_account_level_attribution                                     *)
(***************************************************************************)
_calculate_account_complexity(opp) ==
    LET total_stakeholders == opp.decision_makers_count + opp.influencers_count
        tier == CASE opp.deal_size_tier = "enterprise" -> Rat(30, 100)
                  [] opp.deal_size_tier = "mid-market" -> Rat(15, 100)
                  [] OTHER -> Zero
        committee == IF total_stakeholders > 5 THEN Rat(20, 100)
                     ELSE IF total_stakeholders > 3 THEN Rat(10, 100)
                     ELSE Zero
        cycle == IF opp.sales_cycle_days > 365 THEN Rat(25, 100)
                 ELSE IF opp.sales_cycle_days > 180 THEN Rat(15, 100)
                 ELSE Zero
    IN  RAdd(RAdd(RAdd(One, tier), committee), cycle)

_get_deal_size_multiplier(deal_size_tier) ==
    CASE deal_size_tier = "enterprise" -> Rat(14, 10)
      [] deal_size_tier = "mid-market" -> Rat(12, 10)
      [] deal_size_tier = "smb"        -> Rat(10, 10)
      [] OTHER                         -> One

\* a slip of the code: the mid-market cycle also for a tier that is not in the
\* table
ExpectedCycleDaysDefaultMidMarket(deal_size_tier) ==
    CASE deal_size_tier = "enterprise" -> 270
      [] deal_size_tier = "smb"        -> 60
      [] OTHER                         -> 150

_get_expected_cycle_days(deal_size_tier) ==
    CASE deal_size_tier = "enterprise" -> 270
      [] deal_size_tier = "mid-market" -> 150
      [] deal_size_tier = "smb"        -> 60
      [] OTHER                         -> 180

\* a slip of the code: the complexity added to the weight, not multiplied
AccountWeightComplexityAdded(tp, opp) ==
    LET complexity_multiplier == _calculate_account_complexity(opp)
        committee_size == opp.decision_makers_count + opp.influencers_count
        committee_factor == RAdd(One, Rat(committee_size, 10))
        deal_size_multiplier == _get_deal_size_multiplier(opp.deal_size_tier)
        base0 == RMul(TypeWeight(tp.touchpoint_type), Rat(tp.engagement_score, 100))
        base_weight == IF tp.is_sales_touch THEN RMul(base0, Rat(13, 10)) ELSE base0
    IN  RAdd(RMul(RMul(base_weight, committee_factor), deal_size_multiplier),
             complexity_multiplier)

\* the weight of one touchpoint for one opportunity (loop body, lines 320-342)
AccountWeight(tp, opp) ==
    LET complexity_multiplier == _calculate_account_complexity(opp)
        committee_size == opp.decision_makers_count + opp.influencers_count
        committee_factor == RAdd(One, Rat(committee_size, 10))
        deal_size_multiplier == _get_deal_size_multiplier(opp.deal_size_tier)
        base0 == RMul(TypeWeight(tp.touchpoint_type), Rat(tp.engagement_score, 100))
        base_weight == IF tp.is_sales_touch THEN RMul(base0, Rat(13, 10)) ELSE base0
    IN  RMul(RMul(RMul(base_weight, complexity_multiplier), committee_factor),
             deal_size_multiplier)

\* a slip of the code: no guard on the total, a zero total giving zero shares
AccountUnguarded(tps, opp) ==
    LET idx == AccountTouchpoints(tps, opp.account_id)
        w == [i \in idx |-> AccountWeight(tps[i], opp)]
        ids == {tps[i].touchpoint_id : i \in idx}
        total_account_weight == RSumOver(w, idx)
    IN  [id \in ids |->
            IF total_account_weight = Zero THEN Zero
            ELSE RMul(RDiv(w[LastWithId(tps, idx, id)], total_account_weight),
                      Rat(opp.amount, 1))]

\* what one opportunity writes into attribution_weights (lines 299-347)
AccountOfOpportunity(tps, opp) ==
    LET idx == AccountTouchpoints(tps, opp.account_id)
        w == [i \in idx |-> AccountWeight(tps[i], opp)]
        ids == {tps[i].touchpoint_id : i \in idx}
        total_account_weight == RSumOver(w, idx)
    IN  IF idx = {} THEN EmptyMap
        ELSE IF RLt(Zero, total_account_weight)
             THEN [id \in ids |->
                     RMul(RDiv(w[LastWithId(tps, idx, id)], total_account_weight),
                          Rat(opp.amount, 1))]
             ELSE EmptyMap

RECURSIVE AccountLoop(_, _, _, _)
AccountLoop(tps, opps, k, acc) ==
    IF k > Len(opps) THEN acc
    ELSE AccountLoop(tps, opps, k + 1, Assign(acc, AccountOfOpportunity(tps, opps[k])))

calculate_account_level_attribution(opps, tps) == AccountLoop(tps, opps, 1, EmptyMap)

(***************************************************************************)
(* calculate_stage_progression_attribution                                 *)
(***************************************************************************)
StageWeightOf(tp) ==
    RMul(RMul(Rat(tp.engagement_score, 100), StageWeight(tp.stage_influence)),
         TypeWeight(tp.touchpoint_type))

\* a slip of the code: a touchpoint of weight 0 gets no entry
StageProgressionOfEngaged(tps) ==
    LET idx == {i \in 1..Len(tps) : tps[i].engagement_score # 0}
        ids == {tps[i].touchpoint_id : i \in idx}
    IN  [id \in ids |-> StageWeightOf(tps[LastWithId(tps, idx, id)])]

calculate_stage_progression_attribution(tps) ==
    LET idx == 1..Len(tps)
        ids == {tps[i].touchpoint_id : i \in idx}
    IN  [id \in ids |-> StageWeightOf(tps[LastWithId(tps, idx, id)])]

(***************************************************************************)
(* calculate_pipeline_velocity_impact                                      *)
(***************************************************************************)
\* a slip of the code: the penalty of a slow deal without its floor of 0.5
VelocityBonusUnfloored(opp) ==
    LET actual_cycle == opp.sales_cycle_days
        expected_cycle == _get_expected_cycle_days(opp.deal_size_tier)
    IN  IF actual_cycle < expected_cycle
        THEN RAdd(One, RMul(Rat(expected_cycle - actual_cycle, expected_cycle),
                            Rat(5, 10)))
        ELSE RSub(One, RMul(Rat(actual_cycle - expected_cycle, expected_cycle),
                            Rat(3, 10)))

\* velocity_bonus of an opportunity (lines 403-411)
VelocityBonus(opp) ==
    LET actual_cycle == opp.sales_cycle_days
        expected_cycle == _get_expected_cycle_days(opp.deal_size_tier)
    IN  IF actual_cycle < expected_cycle
        THEN RAdd(One, RMul(Rat(expected_cycle - actual_cycle, expected_cycle),
                            Rat(5, 10)))
        ELSE RMax(Rat(5, 10),
                  RSub(One, RMul(Rat(actual_cycle - expected_cycle, expected_cycle),
                                 Rat(3, 10))))

VelocityWeight(tp, opp) ==
    LET base_weight == Rat(tp.engagement_score, 100)
        velocity_bonus == VelocityBonus(opp)
        velocity_impact == IF tp.touchpoint_type \in {"demo_request", "sales_call"}
                           THEN RMul(velocity_bonus, Rat(12, 10))
                           ELSE velocity_bonus
    IN  RMul(base_weight, velocity_impact)

\* what one opportunity writes into attribution_weights (lines 395-423)
VelocityOfOpportunity(tps, opp) ==
    LET idx == AccountTouchpoints(tps, opp.account_id)
        ids == {tps[i].touchpoint_id : i \in idx}
    IN  [id \in ids |-> VelocityWeight(tps[LastWithId(tps, idx, id)], opp)]

RECURSIVE VelocityLoop(_, _, _, _)
VelocityLoop(tps, opps, k, acc) ==
    IF k > Len(opps) THEN acc
    ELSE VelocityLoop(tps, opps, k + 1, Assign(acc, VelocityOfOpportunity(tps, opps[k])))

calculate_pipeline_velocity_impact(opps, tps) == VelocityLoop(tps, opps, 1, EmptyMap)

(***************************************************************************)
(* combine_b2b_attribution_factors                                         *)
(***************************************************************************)
Factors == {"time", "quality", "account", "stage", "velocity"}

DefaultWeights ==
    [f \in Factors |->
        CASE f = "time"     -> Rat(25, 100)
          [] f = "quality"  -> Rat(25, 100)
          [] f = "account"  -> Rat(25, 100)
          [] f = "stage"    -> Rat(15, 100)
          [] f = "velocity" -> Rat(10, 100)]

\* a slip of the code: the weights divided by their sum before use
CombineRenormalized(time_weighted, quality_weighted, account_based, stage_weighted, velocity_impact, w) ==
    LET w0 == IF w = None THEN DefaultWeights ELSE w[1]
        sum == RSumOver(w0, Factors)
        ws == [f \in Factors |-> IF sum = Zero THEN w0[f] ELSE RDiv(w0[f], sum)]
        all_touchpoint_ids ==
            DOMAIN time_weighted \cup DOMAIN quality_weighted \cup DOMAIN account_based
                \cup DOMAIN stage_weighted \cup DOMAIN velocity_impact
    IN  [tp_id \in all_touchpoint_ids |->
            RAdd(RAdd(RAdd(RAdd(RMul(Get(time_weighted, tp_id), ws["time"]),
                                RMul(Get(quality_weighted, tp_id), ws["quality"])),
                           RMul(Get(account_based, tp_id), ws["account"])),
                      RMul(Get(stage_weighted, tp_id), ws["stage"])),
                 RMul(Get(velocity_impact, tp_id), ws["velocity"]))]

\* a slip of the code: only the touchpoints of the time-weighted map combined
CombineTimeKeysOnly(time_weighted, quality_weighted, account_based, stage_weighted, velocity_impact, w) ==
    LET ws == IF w = None THEN DefaultWeights ELSE w[1]
    IN  [tp_id \in DOMAIN time_weighted |->
            RAdd(RAdd(RAdd(RAdd(RMul(Get(time_weighted, tp_id), ws["time"]),
                                RMul(Get(quality_weighted, tp_id), ws["quality"])),
                           RMul(Get(account_based, tp_id), ws["account"])),
                      RMul(Get(stage_weighted, tp_id), ws["stage"])),
                 RMul(Get(velocity_impact, tp_id), ws["velocity"]))]

combine_b2b_attribution_factors(time_weighted, quality_weighted, account_based, stage_weighted, velocity_impact, w) ==
    LET ws == IF w = None THEN DefaultWeights ELSE w[1]
        all_touchpoint_ids ==
            DOMAIN time_weighted \cup DOMAIN quality_weighted \cup DOMAIN account_based
                \cup DOMAIN stage_weighted \cup DOMAIN velocity_impact
    IN  [tp_id \in all_touchpoint_ids |->
            RAdd(RAdd(RAdd(RAdd(RMul(Get(time_weighted, tp_id), ws["time"]),
                                RMul(Get(quality_weighted, tp_id), ws["quality"])),
                           RMul(Get(account_based, tp_id), ws["account"])),
                      RMul(Get(stage_weighted, tp_id), ws["stage"])),
                 RMul(Get(velocity_impact, tp_id), ws["velocity"]))]

(***************************************************************************)
(* generate_attribution_summary: the totals, and whether it raises.  The   *)
(* percentage of a top touchpoint divides by the total (line 496).         *)
(***************************************************************************)
NoSummary == [total_attribution_value |-> Zero, touchpoint_count |-> 0,
              average_attribution_per_touchpoint |-> Zero]

\* a slip of the code: no early return for the empty map, and the average
\* divided by the count without a guard
SummaryUnguarded(attribution_results) ==
    LET keys == DOMAIN attribution_results
        total_attribution == RSumOver(attribution_results, keys)
        touchpoint_count == Cardinality(keys)
    IN  IF keys = {} \/ total_attribution = Zero
        THEN [exc |-> Some("ZeroDivisionError"), empty |-> keys = {},
              summary |-> NoSummary]
        ELSE [exc |-> None, empty |-> FALSE,
              summary |->
                [total_attribution_value |-> total_attribution,
                 touchpoint_count |-> touchpoint_count,
                 average_attribution_per_touchpoint |->
                     RDiv(total_attribution, Rat(touchpoint_count, 1))]]

generate_attribution_summary(attribution_results) ==
    LET keys == DOMAIN attribution_results
        total_attribution == RSumOver(attribution_results, keys)
        touchpoint_count == Cardinality(keys)
    IN  IF keys = {} THEN [exc |-> None, empty |-> TRUE, summary |-> NoSummary]
        ELSE IF total_attribution = Zero
             THEN [exc |-> Some("ZeroDivisionError"), empty |-> FALSE,
                   summary |-> NoSummary]
             ELSE [exc |-> None, empty |-> FALSE,
                   summary |->
                     [total_attribution_value |-> total_attribution,
                      touchpoint_count |-> touchpoint_count,
                      average_attribution_per_touchpoint |->
                          RDiv(total_attribution, Rat(touchpoint_count, 1))]]

(***************************************************************************)
(* b2b_specific_attribution: the five factors, combined with the default   *)
(* weights (no weights argument is passed at lines 165-171).               *)
(***************************************************************************)
b2b_specific_attribution(leads, opps, tps) ==
    LET time_weighted == calculate_b2b_time_decay(tps, opps)
        quality_weighted == calculate_lead_quality_impact(leads, tps)
        account_based == calculate_account_level_attribution(opps, tps)
        stage_weighted == calculate_stage_progression_attribution(tps)
        velocity_impact == calculate_pipeline_velocity_impact(opps, tps)
        combined_attribution ==
            combine_b2b_attribution_factors(time_weighted, quality_weighted,
                account_based, stage_weighted, velocity_impact, None)
        summary == generate_attribution_summary(combined_attribution)
    IN  [exc |-> summary.exc,
         time_weighted_attribution |-> time_weighted,
         quality_weighted_attribution |-> quality_weighted,
         account_based_attribution |-> account_based,
         stage_progression_attribution |-> stage_weighted,
         pipeline_velocity_attribution |-> velocity_impact,
         combined_b2b_attribution |-> combined_attribution,
         attribution_summary |-> summary]

(***************************************************************************)
(* B2BAttributionAnalyzer                                                  *)
(***************************************************************************)
\* float('inf'): a quotient with denominator 0; RLt orders it above the rest
Infinity == <<1, 0>>

\* touchpoint_lookup = {tp.touchpoint_id: tp ...}: the last one of an id stays
TouchpointLookup(tps, id) ==
    LET idx == {i \in 1..Len(tps) : tps[i].touchpoint_id = id}
    IN  IF idx = {} THEN None
        ELSE Some(tps[CHOOSE i \in idx : \A j \in idx : j <= i])

RECURSIVE IntSumOver(_, _)
IntSumOver(f, S) ==
    IF S = {} THEN 0
    ELSE LET k == CHOOSE x \in S : TRUE
         IN  f[k] + IntSumOver(f, S \ {k})

\* the roll-up of one channel; exc when the cost is divided by a zero total
ChannelMetrics(attribution_results, tps, channel) ==
    LET ids == {id \in DOMAIN attribution_results :
                   /\ TouchpointLookup(tps, id) # None
                   /\ TouchpointLookup(tps, id)[1].channel = channel}
        total_attribution == RSumOver(attribution_results, ids)
        total_cost == IntSumOver([id \in ids |-> TouchpointLookup(tps, id)[1].cost], ids)
        raises == total_cost > 0 /\ total_attribution = Zero
    IN  [exc |-> IF raises THEN Some("ZeroDivisionError") ELSE None,
         total_attribution |-> total_attribution,
         touchpoint_count |-> Cardinality(ids),
         total_cost |-> total_cost,
         touchpoint_types |-> {TouchpointLookup(tps, id)[1].touchpoint_type : id \in ids},
         roi |-> IF total_cost > 0
                 THEN RDiv(RSub(total_attribution, Rat(total_cost, 1)), Rat(total_cost, 1))
                 ELSE IF RLt(Zero, total_attribution) THEN Infinity ELSE Zero,
         cost_per_attribution |->
                 IF total_cost > 0 /\ ~raises
                 THEN RDiv(Rat(total_cost, 1), total_attribution)
                 ELSE Zero]

analyze_channel_performance(attribution_results, tps) ==
    LET channels == {TouchpointLookup(tps, id)[1].channel :
                        id \in {k \in DOMAIN attribution_results :
                                   TouchpointLookup(tps, k) # None}}
        perf == [c \in channels |-> ChannelMetrics(attribution_results, tps, c)]
    IN  [exc |-> IF \E c \in channels : perf[c].exc # None
                 THEN Some("ZeroDivisionError") ELSE None,
         channels |-> perf]

\* a slip of the code: the score without its floor of 0
AlignmentScoreUnclamped(sales_attr, marketing_attr, joint_attr) ==
    LET total_attr == RAdd(RAdd(sales_attr, marketing_attr), joint_attr)
        hundred == Rat(100, 1)
        marketing_pct == RMul(RDiv(marketing_attr, total_attr), hundred)
        sales_pct == RMul(RDiv(sales_attr, total_attr), hundred)
        joint_pct == RMul(RDiv(joint_attr, total_attr), hundred)
        RAbs(x) == <<Abs(x[1]), x[2]>>
        total_deviation ==
            RAdd(RAdd(RAbs(RSub(marketing_pct, Rat(40, 1))),
                      RAbs(RSub(sales_pct, Rat(40, 1)))),
                 RAbs(RSub(joint_pct, Rat(20, 1))))
    IN  IF total_attr = Zero THEN Zero
        ELSE RSub(hundred, total_deviation)

_calculate_alignment_score(sales_attr, marketing_attr, joint_attr) ==
    LET total_attr == RAdd(RAdd(sales_attr, marketing_attr), joint_attr)
        hundred == Rat(100, 1)
        marketing_pct == RMul(RDiv(marketing_attr, total_attr), hundred)
        sales_pct == RMul(RDiv(sales_attr, total_attr), hundred)
        joint_pct == RMul(RDiv(joint_attr, total_attr), hundred)
        RAbs(x) == <<Abs(x[1]), x[2]>>
        total_deviation ==
            RAdd(RAdd(RAbs(RSub(marketing_pct, Rat(40, 1))),
                      RAbs(RSub(sales_pct, Rat(40, 1)))),
                 RAbs(RSub(joint_pct, Rat(20, 1))))
    IN  IF total_attr = Zero THEN Zero
        ELSE RMax(Zero, RSub(hundred, total_deviation))

\* a slip of the code: `if` for `elif`, a joint touchpoint counted as sales too
AlignmentDoubleCounted(attribution_results, tps) ==
    LET known == {id \in DOMAIN attribution_results : TouchpointLookup(tps, id) # None}
        tp(id) == TouchpointLookup(tps, id)[1]
        joint == {id \in known : tp(id).is_sales_touch /\ tp(id).is_marketing_touch}
        sales == {id \in known : tp(id).is_sales_touch}
        marketing == {id \in known : ~tp(id).is_sales_touch /\ tp(id).is_marketing_touch}
        sales_attribution == RSumOver(attribution_results, sales)
        marketing_attribution == RSumOver(attribution_results, marketing)
        joint_attribution == RSumOver(attribution_results, joint)
        total_attribution ==
            RAdd(RAdd(sales_attribution, marketing_attribution), joint_attribution)
        pct(x) == IF RLt(Zero, total_attribution)
                  THEN RMul(RDiv(x, total_attribution), Rat(100, 1)) ELSE Zero
    IN  [sales_attribution |-> sales_attribution,
         marketing_attribution |-> marketing_attribution,
         joint_attribution |-> joint_attribution,
         sales_percentage |-> pct(sales_attribution),
         marketing_percentage |-> pct(marketing_attribution),
         joint_percentage |-> pct(joint_attribution),
         alignment_score |-> _calculate_alignment_score(sales_attribution,
                                 marketing_attribution, joint_attribution)]

analyze_sales_marketing_alignment(attribution_results, tps) ==
    LET known == {id \in DOMAIN attribution_results : TouchpointLookup(tps, id) # None}
        tp(id) == TouchpointLookup(tps, id)[1]
        joint == {id \in known : tp(id).is_sales_touch /\ tp(id).is_marketing_touch}
        sales == {id \in known : tp(id).is_sales_touch /\ ~tp(id).is_marketing_touch}
        marketing == {id \in known : ~tp(id).is_sales_touch /\ tp(id).is_marketing_touch}
        sales_attribution == RSumOver(attribution_results, sales)
        marketing_attribution == RSumOver(attribution_results, marketing)
        joint_attribution == RSumOver(attribution_results, joint)
        total_attribution ==
            RAdd(RAdd(sales_attribution, marketing_attribution), joint_attribution)
        pct(x) == IF RLt(Zero, total_attribution)
                  THEN RMul(RDiv(x, total_attribution), Rat(100, 1)) ELSE Zero
    IN  [sales_attribution |-> sales_attribution,
         marketing_attribution |-> marketing_attribution,
         joint_attribution |-> joint_attribution,
         sales_percentage |-> pct(sales_attribution),
         marketing_percentage |-> pct(marketing_attribution),
         joint_percentage |-> pct(joint_attribution),
         alignment_score |-> _calculate_alignment_score(sales_attribution,
                                 marketing_attribution, joint_attribution)]

(***************************************************************************)
(* Input records.  A touchpoint's id is its position in the list, so ids   *)
(* are distinct, as the data model requires.                               *)
(***************************************************************************)
Accounts == {"acct_1", "acct_2"}

Touchpoint(account, ts, type, engagement, sales, marketing) ==
    [touchpoint_id |-> 0, lead_id |-> account, account_id |-> account,
     timestamp |-> ts, touchpoint_type |-> type, channel |-> type,
     engagement_score |-> engagement, stage_influence |-> "awareness",
     cost |-> 0, is_sales_touch |-> sales, is_marketing_touch |-> marketing]

Opportunity(account, amount, created, close, cycle, tier, makers, influencers) ==
    [account_id |-> account, amount |-> amount, created_date |-> created,
     close_date |-> close, sales_cycle_days |-> cycle, deal_size_tier |-> tier,
     decision_makers_count |-> makers, influencers_count |-> influencers]

Lead(id, score, tier) ==
    [lead_id |-> id, account_id |-> id, lead_score |-> score,
     demographic_score |-> 50, firmographic_score |-> 50,
     lead_quality_tier |-> tier]

\* lists of at most n records of D
ListsOf(D, n) == UNION {[1..k -> D] : k \in 0..n}
WithIds(tps) == [i \in 1..Len(tps) |-> [tps[i] EXCEPT !.touchpoint_id = i]]
TouchpointLists(D) == {WithIds(l) : l \in ListsOf(D, MaxTouchpoints)}
OpportunityLists(D) == ListsOf(D, MaxOpportunities)

\* touchpoints before, at and after the conversion date, of two types
TimeTouchpoints ==
    {Touchpoint(a, ts, ty, 50, FALSE, TRUE) :
        a \in Accounts, ts \in {0, 60, 90}, ty \in {"content_download", "demo_request"}}

\* a closed 60-day deal, and one with no close date and no cycle length
TimeOpportunities ==
    {Opportunity(a, 1000, 0, Some(60), 60, "smb", 1, 0) : a \in Accounts}
        \cup {Opportunity(a, 2500, 30, None, 0, "mid-market", 1, 0) : a \in Accounts}

\* touchpoints of engagement 0 and 80, sales or marketing
AccountTouchpointSet ==
    {Touchpoint(a, 0, ty, e, sl, ~sl) :
        a \in Accounts, ty \in {"website_visit", "sales_call"}, e \in {0, 80},
        sl \in BOOLEAN}

AccountOpportunities ==
    {Opportunity(a, 1000, 0, Some(60), 60, "smb", 1, 0) : a \in Accounts}
        \cup {Opportunity(a, 100000, 0, Some(400), 400, "enterprise", 3, 3) : a \in Accounts}

(***************************************************************************)
(* B2BAttributionService: rows of the storage and their conversion.        *)
(***************************************************************************)
TouchpointRow(id, customer, ts, channel, engagement, cost) ==
    [id |-> id, customer_id |-> customer, timestamp |-> ts, channel |-> channel,
     engagement_score |-> engagement, cost |-> cost]

ConversionRow(id, customer, value, created, close) ==
    [id |-> id, customer_id |-> customer, value |-> value, created_at |-> created,
     close_date |-> close]

CustomerRow(id) == [id |-> id]

\* str.lower() on the channel names of the model
Lower(channel) ==
    CASE channel = "Email" -> "email"
      [] channel = "Demo"  -> "demo"
      [] channel = "Direct" -> "direct"
      [] OTHER             -> channel

\* type_mapping.get(channel.lower(), WEBSITE_VISIT)
MapTouchpointType(channel) ==
    LET c == Lower(channel)
    IN  CASE c = "email"       -> "email_engagement"
          [] c = "website"     -> "website_visit"
          [] c = "social"      -> "social_engagement"
          [] c = "search"      -> "website_visit"
          [] c = "content"     -> "content_download"
          [] c = "webinar"     -> "webinar_attendance"
          [] c = "demo"        -> "demo_request"
          [] c = "call"        -> "sales_call"
          [] c = "trade_show"  -> "trade_show"
          [] c = "referral"    -> "referral"
          [] c = "direct_mail" -> "direct_mail"
          [] OTHER             -> "website_visit"

ConvertTouchpoint(row) ==
    LET touchpoint_type == MapTouchpointType(row.channel)
        stage_influence ==
            IF touchpoint_type \in {"demo_request", "sales_call"} THEN "evaluation"
            ELSE IF touchpoint_type \in {"webinar_attendance", "content_download"}
                 THEN "consideration"
            ELSE IF touchpoint_type = "email_engagement" THEN "interest"
            ELSE "awareness"
        sales_channels == {"call", "sales_call", "demo", "phone"}
        marketing_channels == {"email", "social", "content", "webinar", "website", "search"}
        demo == touchpoint_type = "demo_request"
    IN  [touchpoint_id |-> row.id, lead_id |-> row.customer_id,
         account_id |-> row.customer_id, timestamp |-> row.timestamp,
         touchpoint_type |-> touchpoint_type, channel |-> row.channel,
         \* getattr(touchpoint, 'engagement_score', 50.0)
         engagement_score |-> IF row.engagement_score = None THEN 50
                              ELSE row.engagement_score[1],
         stage_influence |-> stage_influence, cost |-> row.cost,
         is_sales_touch |-> demo \/ Lower(row.channel) \in sales_channels,
         is_marketing_touch |-> demo \/ Lower(row.channel) \in marketing_channels]

_convert_touchpoints_to_b2b_format(rows) ==
    [i \in 1..Len(rows) |-> ConvertTouchpoint(rows[i])]

ConvertConversion(row) ==
    LET cycle_days == IF row.close_date # None THEN row.close_date[1] - row.created_at
                      ELSE 90
        deal_tier == IF row.value >= 100000 THEN "enterprise"
                     ELSE IF row.value >= 25000 THEN "mid-market"
                     ELSE "smb"
    IN  [account_id |-> row.customer_id, amount |-> row.value,
         created_date |-> row.created_at, close_date |-> row.close_date,
         sales_cycle_days |-> cycle_days, deal_size_tier |-> deal_tier,
         \* getattr(conversion, 'decision_makers_count', 1), (.., 'influencers_count', 0)
         decision_makers_count |-> 1, influencers_count |-> 0]

_convert_conversions_to_opportunities(rows) ==
    [i \in 1..Len(rows) |-> ConvertConversion(rows[i])]

\* the scores default to 50 (getattr), which makes the quality tier "C"
ConvertCustomer(row) ==
    LET lead_score == 50
        quality_tier == IF lead_score >= 80 THEN "A"
                        ELSE IF lead_score >= 60 THEN "B"
                        ELSE IF lead_score >= 40 THEN "C"
                        ELSE "D"
    IN  [lead_id |-> row.id, account_id |-> row.id, lead_score |-> lead_score,
         demographic_score |-> 50, firmographic_score |-> 50,
         lead_quality_tier |-> quality_tier]

_convert_customers_to_leads(rows) ==
    [i \in 1..Len(rows) |-> ConvertCustomer(rows[i])]

(***************************************************************************)
(* _load_b2b_data: the three queries.                                      *)
(***************************************************************************)
RECURSIVE SelectSeq2(_, _, _)
\* the elements of l, the k-th repeated counts[k] times, in list order
SelectSeq2(l, counts, k) ==
    IF k > Len(l) THEN <<>>
    ELSE [i \in 1..counts[k] |-> l[k]] \o SelectSeq2(l, counts, k + 1)

\* `if account_ids:` an absent or empty list sets no condition
HasAccountFilter(req) == req.account_ids # None /\ req.account_ids[1] # {}

\* select(Touchpoint).where(Customer.id.in_(account_ids), timestamp >= date_from,
\* timestamp <= date_to): the customer condition is on the customer table, which
\* the statement does not join to the touchpoints, so every touchpoint in the
\* window comes once for each customer row whose id is in account_ids
TouchpointQuery(d, req) ==
    LET in_window(t) ==
            /\ (req.date_from # None => t.timestamp >= req.date_from[1])
            /\ (req.date_to # None => t.timestamp <= req.date_to[1])
        matching_customers ==
            Cardinality({i \in 1..Len(d.customers) :
                            d.customers[i].id \in req.account_ids[1]})
        count(t) == IF ~in_window(t) THEN 0
                    ELSE IF HasAccountFilter(req) THEN matching_customers
                    ELSE 1
    IN  SelectSeq2(d.touchpoints, [k \in 1..Len(d.touchpoints) |-> count(d.touchpoints[k])], 1)

CustomerQuery(d, req) ==
    LET count(c) == IF HasAccountFilter(req) /\ c.id \notin req.account_ids[1]
                    THEN 0 ELSE 1
    IN  SelectSeq2(d.customers, [k \in 1..Len(d.customers) |-> count(d.customers[k])], 1)

ConversionQuery(d, req) ==
    LET count(c) == IF HasAccountFilter(req) /\ c.customer_id \notin req.account_ids[1]
                    THEN 0 ELSE 1
    IN  SelectSeq2(d.conversions, [k \in 1..Len(d.conversions) |-> count(d.conversions[k])], 1)

(***************************************************************************)
(* calculate_b2b_attribution, from the rows to the result document.        *)
(***************************************************************************)
\* lines 97-105: the result document
ResultDocument(attribution_results, channel_analysis, alignment_analysis, leads, opps, tps, req) ==
    [exc |-> IF attribution_results.exc # None THEN attribution_results.exc
             ELSE channel_analysis.exc,
     attribution |-> attribution_results,
     channel_performance |-> channel_analysis.channels,
     sales_marketing_alignment |-> alignment_analysis,
     metadata |-> [leads_analyzed |-> Len(leads),
                   opportunities_analyzed |-> Len(opps),
                   touchpoints_analyzed |-> Len(tps),
                   attribution_weights |-> req.attribution_weights]]

\* lines 86-94: the two analyses of the combined attribution
AnalyzeResults(attribution_results, leads, opps, tps, req) ==
    ResultDocument(attribution_results,
        analyze_channel_performance(attribution_results.combined_b2b_attribution, tps),
        analyze_sales_marketing_alignment(
            attribution_results.combined_b2b_attribution, tps),
        leads, opps, tps, req)

\* lines 79-83: the engine on the converted rows
RunEngine(leads, opps, tps, req) ==
    AnalyzeResults(b2b_specific_attribution(leads, opps, tps), leads, opps, tps, req)

\* lines 76-105: engine, channel analysis, alignment analysis, document
ComprehensiveResults(rows, req) ==
    RunEngine(_convert_customers_to_leads(rows.customers),
              _convert_conversions_to_opportunities(rows.conversions),
              _convert_touchpoints_to_b2b_format(rows.touchpoints), req)

(***************************************************************************)
(* The service is at rest while the engine is called directly.             *)
(***************************************************************************)
NoCall == [op |-> "none", result |-> EmptyMap]
NoFactors == [f \in Factors |-> EmptyMap]
NoRows == [touchpoints |-> <<>>, customers |-> <<>>, conversions |-> <<>>]
NoRequest == [account_ids |-> None, date_from |-> None, date_to |-> None,
              attribution_weights |-> None]
EmptySession == [added |-> <<>>, committed |-> <<>>, rollbacks |-> 0]
Pending == [kind |-> "pending", error |-> None, results |-> None]

ServiceIdle ==
    /\ db = NoRows
    /\ request = NoRequest
    /\ pc = "idle"
    /\ loaded = NoRows
    /\ session = EmptySession
    /\ outcome = Pending
    /\ cancel_requested = FALSE
    /\ events = <<>>

EngineIdle ==
    /\ touchpoint_data = <<>>
    /\ opportunity_data = <<>>
    /\ lead_data = <<>>
    /\ factors = NoFactors
    /\ weights = None
    /\ call = NoCall

InitEngine(TPs, OPPs) ==
    /\ touchpoint_data \in TouchpointLists(TPs)
    /\ opportunity_data \in OpportunityLists(OPPs)
    /\ lead_data = <<>>
    /\ factors = NoFactors
    /\ weights = None
    /\ call = NoCall
    /\ ServiceIdle

CallTimeDecay ==
    /\ call' = [op |-> "calculate_b2b_time_decay",
                result |-> calculate_b2b_time_decay(touchpoint_data, opportunity_data)]
    /\ UNCHANGED <<lead_data, opportunity_data, touchpoint_data, factors, weights,
                 service_vars>>

CallAccountLevel ==
    /\ call' = [op |-> "calculate_account_level_attribution",
                result |-> calculate_account_level_attribution(opportunity_data,
                                                               touchpoint_data)]
    /\ UNCHANGED <<lead_data, opportunity_data, touchpoint_data, factors, weights,
                 service_vars>>

CallPipelineVelocity ==
    /\ call' = [op |-> "calculate_pipeline_velocity_impact",
                result |-> calculate_pipeline_velocity_impact(opportunity_data,
                                                              touchpoint_data)]
    /\ UNCHANGED <<lead_data, opportunity_data, touchpoint_data, factors, weights,
                 service_vars>>

SpecTimeDecay ==
    InitEngine(TimeTouchpoints, TimeOpportunities) /\ [][CallTimeDecay]_vars

SpecAccountLevel ==
    InitEngine(AccountTouchpointSet, AccountOpportunities) /\ [][CallAccountLevel]_vars

NextMultiOpportunity == CallTimeDecay \/ CallAccountLevel \/ CallPipelineVelocity

SpecMultiOpportunity ==
    InitEngine(TimeTouchpoints, TimeOpportunities) /\ [][NextMultiOpportunity]_vars

(***************************************************************************)
(* Shorthands of the claims.                                               *)
(***************************************************************************)
\* ids of the touchpoints of the account of opportunity k
IdsOf(k) ==
    {touchpoint_data[i].touchpoint_id :
        i \in AccountTouchpoints(touchpoint_data, opportunity_data[k].account_id)}

OnlyOpportunityOfAccount(k) ==
    \A j \in 1..Len(opportunity_data) :
        opportunity_data[j].account_id = opportunity_data[k].account_id => j = k

\* the list without its k-th element
Without(l, k) == [i \in 1..(Len(l) - 1) |-> IF i < k THEN l[i] ELSE l[i + 1]]

\* C1: calculate_b2b_time_decay gives the touchpoints of the account of an
\* opportunity that is alone in its account, and has a touchpoint, values that
\* sum to the opportunity's amount; an opportunity with no touchpoint in its
\* account adds nothing (no key of the map is outside the accounts that have
\* an opportunity, and dropping that opportunity leaves the map as it is).
TimeDecayConservation ==
    call.op = "calculate_b2b_time_decay" =>
        /\ \A k \in 1..Len(opportunity_data) :
              (OnlyOpportunityOfAccount(k) /\ IdsOf(k) # {}) =>
                  /\ IdsOf(k) \subseteq DOMAIN call.result
                  /\ RSumOver(call.result, IdsOf(k)) = Rat(opportunity_data[k].amount, 1)
        /\ \A k \in 1..Len(opportunity_data) :
              IdsOf(k) = {} =>
                  call.result = calculate_b2b_time_decay(touchpoint_data,
                                                         Without(opportunity_data, k))
        /\ DOMAIN call.result = UNION {IdsOf(k) : k \in 1..Len(opportunity_data)}

\* a lone opportunity with two touchpoints of different weight, beside an
\* opportunity whose account has no touchpoint
TimeDecayConservationWitness ==
    /\ call.op = "calculate_b2b_time_decay"
    /\ \E k, j \in 1..Len(opportunity_data) :
          /\ OnlyOpportunityOfAccount(k)
          /\ Cardinality(IdsOf(k)) = 2
          /\ \E a, b \in IdsOf(k) : RLt(call.result[a], call.result[b])
          /\ IdsOf(j) = {}

\* C2, as claimed: calculate_account_level_attribution gives the touchpoints of
\* the account of a lone opportunity values that sum to its amount, whatever
\* the engagement scores in [0, 100].
AccountConservationClaimed ==
    call.op = "calculate_account_level_attribution" =>
        \A k \in 1..Len(opportunity_data) :
            (OnlyOpportunityOfAccount(k) /\ IdsOf(k) # {}) =>
                /\ IdsOf(k) \subseteq DOMAIN call.result
                /\ RSumOver(call.result, IdsOf(k)) = Rat(opportunity_data[k].amount, 1)

SomeEngagement(k) ==
    \E i \in AccountTouchpoints(touchpoint_data, opportunity_data[k].account_id) :
        touchpoint_data[i].engagement_score > 0

\* C2, amended: the values sum to the amount when some touchpoint of the
\* account has a positive engagement score; when every engagement score of
\* the account is 0 the opportunity gives no touchpoint of it an entry.
AccountConservation ==
    call.op = "calculate_account_level_attribution" =>
        \A k \in 1..Len(opportunity_data) :
            (OnlyOpportunityOfAccount(k) /\ IdsOf(k) # {}) =>
                IF SomeEngagement(k)
                THEN /\ IdsOf(k) \subseteq DOMAIN call.result
                     /\ RSumOver(call.result, IdsOf(k))
                            = Rat(opportunity_data[k].amount, 1)
                ELSE IdsOf(k) \cap DOMAIN call.result = {}

\* two lone opportunities: the account of one has a touchpoint of engagement
\* 80 and gets the whole amount, the account of the other only engagement 0
AccountConservationWitness ==
    /\ call.op = "calculate_account_level_attribution"
    /\ \E k, j \in 1..Len(opportunity_data) :
          /\ OnlyOpportunityOfAccount(k) /\ OnlyOpportunityOfAccount(j)
          /\ IdsOf(k) # {} /\ SomeEngagement(k)
          /\ RSumOver(call.result, IdsOf(k)) = Rat(opportunity_data[k].amount, 1)
          /\ IdsOf(j) # {} /\ ~SomeEngagement(j)
          /\ IdsOf(j) \cap DOMAIN call.result = {}

\* the contribution of opportunity k to touchpoint id in the called calculator
Contribution(op, k, id) ==
    LET opp == opportunity_data[k]
        m == CASE op = "calculate_b2b_time_decay" ->
                     TimeDecayOfOpportunity(touchpoint_data, opp)
               [] op = "calculate_account_level_attribution" ->
                     AccountOfOpportunity(touchpoint_data, opp)
               [] op = "calculate_pipeline_velocity_impact" ->
                     VelocityOfOpportunity(touchpoint_data, opp)
    IN  Get(m, id)

RECURSIVE ContributionSum(_, _, _)
ContributionSum(op, k, id) ==
    IF k = 0 THEN Zero
    ELSE RAdd(Contribution(op, k, id), ContributionSum(op, k - 1, id))

\* C3: in the time-weighted, account-based and pipeline-velocity maps every
\* touchpoint holds the sum of the contributions of all the opportunities of
\* its account; no contribution replaces another.
ContributionsAccumulate ==
    call.op \in {"calculate_b2b_time_decay", "calculate_account_level_attribution",
                 "calculate_pipeline_velocity_impact"} =>
        \A id \in DOMAIN call.result :
            call.result[id] = ContributionSum(call.op, Len(opportunity_data), id)

(***************************************************************************)
(* The combiner called with factor maps and weights of the caller.         *)
(***************************************************************************)
CombineKeys == {1, 2}

\* the maps from some of the keys to values of V
MapsTo(V) == UNION {[S -> V] : S \in SUBSET CombineKeys}

WeightVector(t, q, a, s, v) ==
    [f \in Factors |->
        CASE f = "time" -> t [] f = "quality" -> q [] f = "account" -> a
          [] f = "stage" -> s [] f = "velocity" -> v]

\* the vector of the specification's example, the test's custom weights
\* (test_combine_b2b_attribution_factors_custom_weights), all on time, all zero
WeightVectors ==
    {WeightVector(Rat(2, 1), Rat(2, 1), Rat(2, 1), Rat(12, 10), Rat(8, 10)),
     WeightVector(Rat(5, 10), Rat(2, 10), Rat(2, 10), Rat(5, 100), Rat(5, 100)),
     WeightVector(One, Zero, Zero, Zero, Zero),
     WeightVector(Zero, Zero, Zero, Zero, Zero)}

InitCombine ==
    /\ factors \in
          {[f \in Factors |->
               CASE f = "time" -> t [] f = "quality" -> q [] f = "account" -> a
                 [] f = "stage" -> s [] f = "velocity" -> v] :
             t \in MapsTo({Zero, Rat(100, 1)}), q \in MapsTo({Zero, Rat(80, 1)}),
             a \in MapsTo({Zero, Rat(90, 1)}), s \in MapsTo({Rat(70, 1)}),
             v \in MapsTo({Rat(60, 1)})}
    /\ weights \in {None} \cup {Some(w) : w \in WeightVectors}
    /\ touchpoint_data = <<>>
    /\ opportunity_data = <<>>
    /\ lead_data = <<>>
    /\ call = NoCall
    /\ ServiceIdle

Combine(fs, w) ==
    combine_b2b_attribution_factors(fs["time"], fs["quality"], fs["account"],
                                    fs["stage"], fs["velocity"], w)

CallCombine ==
    /\ call' = [op |-> "combine_b2b_attribution_factors",
                result |-> Combine(factors, weights)]
    /\ UNCHANGED <<lead_data, opportunity_data, touchpoint_data, factors, weights,
                 service_vars>>

SpecCombine == InitCombine /\ [][CallCombine]_vars

EffectiveWeights(w) == IF w = None THEN DefaultWeights ELSE w[1]
Scaled(k, w) == Some([f \in Factors |-> RMul(k, EffectiveWeights(w)[f])])
ScaleFactors == {Rat(2, 1), Rat(8, 1), Rat(1, 2)}

RECURSIVE WeightedSum(_, _, _, _)
\* sum over the factors of F of (value of id in the factor's map, 0 when
\* absent) times the factor's weight
WeightedSum(fs, ws, id, F) ==
    IF F = {} THEN Zero
    ELSE LET f == CHOOSE x \in F : TRUE
         IN  RAdd(RMul(IF id \in DOMAIN fs[f] THEN fs[f][id] ELSE Zero, ws[f]),
                  WeightedSum(fs, ws, id, F \ {f}))

\* C10: the keys of the combined map are the union of the keys of the five
\* maps, and each value is the weighted sum over the five factors, an absent
\* key counting as 0.
CombineIsWeightedSum ==
    call.op = "combine_b2b_attribution_factors" =>
        /\ DOMAIN call.result = UNION {DOMAIN factors[f] : f \in Factors}
        /\ \A id \in DOMAIN call.result :
              call.result[id]
                  = WeightedSum(factors, EffectiveWeights(weights), id, Factors)

\* a key that only the velocity map holds, another that the time map holds
CombineIsWeightedSumWitness ==
    /\ call.op = "combine_b2b_attribution_factors"
    /\ \E id \in DOMAIN factors["velocity"] :
          /\ \A f \in Factors \ {"velocity"} : id \notin DOMAIN factors[f]
          /\ RLt(Zero, call.result[id])
    /\ \E id \in DOMAIN factors["time"] : id \notin DOMAIN factors["velocity"]
    /\ weights # None

(***************************************************************************)
(* One call of calculate_b2b_attribution as an asyncio task.  The task     *)
(* runs from one await to the next without interruption; pc names the      *)
(* await it is suspended at.  A cancellation of the task is raised inside  *)
(* it, as CancelledError, at the await it is suspended at; CancelledError   *)
(* is no Exception, so neither `except Exception` handler catches it.      *)
(***************************************************************************)
ServiceTouchpointRows ==
    {TouchpointRow(0, "acct_1", 60, "Email", None, 0),
     TouchpointRow(0, "acct_1", 42, "demo", Some(0), 0),
     TouchpointRow(0, "acct_2", 50, "call", None, 100)}

ServiceConversionRows ==
    {ConversionRow(0, "acct_1", 10, 0, Some(60)),
     ConversionRow(0, "acct_2", 40, 0, None)}

RowIds(rows) == [i \in 1..Len(rows) |-> [rows[i] EXCEPT !.id = i]]

ServiceDbs ==
    {[touchpoints |-> RowIds(t), customers |-> <<CustomerRow("acct_1"), CustomerRow("acct_2")>>,
      conversions |-> RowIds(c)] :
        t \in ListsOf(ServiceTouchpointRows, MaxTouchpoints),
        c \in ListsOf(ServiceConversionRows, MaxOpportunities)}

\* no window, a window, a window with to < from
Windows == {<<None, None>>, <<Some(40), Some(50)>>, <<Some(50), Some(40)>>}

\* all on time, all zero, one negative
RequestWeights ==
    {WeightVector(One, Zero, Zero, Zero, Zero),
     WeightVector(Zero, Zero, Zero, Zero, Zero),
     WeightVector(Rat(-1, 1), One, One, Zero, Zero)}

Requests ==
    {[account_ids |-> a, date_from |-> w[1], date_to |-> w[2], attribution_weights |-> x] :
        a \in {None, Some({"acct_1"})}, w \in Windows,
        x \in {None} \cup {Some(v) : v \in RequestWeights}}

Init ==
    /\ db \in ServiceDbs
    /\ request \in Requests
    /\ pc = "start"
    /\ loaded = NoRows
    /\ session = EmptySession
    /\ outcome = Pending
    /\ cancel_requested = FALSE
    /\ events = <<>>
    /\ EngineIdle

Awaits == {"await_touchpoints", "await_customers", "await_conversions",
           "await_commit", "await_rollback"}
LoadAwaits == {"await_touchpoints", "await_customers", "await_conversions"}

\* lines 59-149: the call is entered and the touchpoint query is issued
BeginLoad ==
    /\ pc = "start"
    /\ pc' = "await_touchpoints"
    /\ events' = Append(events, "execute")
    /\ UNCHANGED <<db, request, loaded, session, outcome, cancel_requested, engine_vars>>

\* lines 149-157: the touchpoints arrive, the customer query is issued
TouchpointsLoaded ==
    /\ pc = "await_touchpoints" /\ ~cancel_requested
    /\ loaded' = [loaded EXCEPT !.touchpoints = TouchpointQuery(db, request)]
    /\ pc' = "await_customers"
    /\ events' = Append(events, "execute")
    /\ UNCHANGED <<db, request, session, outcome, cancel_requested, engine_vars>>

\* lines 157-169: the customers arrive, the conversion query is issued
CustomersLoaded ==
    /\ pc = "await_customers" /\ ~cancel_requested
    /\ loaded' = [loaded EXCEPT !.customers = CustomerQuery(db, request)]
    /\ pc' = "await_conversions"
    /\ events' = Append(events, "execute")
    /\ UNCHANGED <<db, request, session, outcome, cancel_requested, engine_vars>>

\* a slip of the code: the document is stored before it is analyzed
StepsStoreBeforeAnalysis ==
    <<"engine", "store", "add", "commit", "channel_analysis", "alignment_analysis">>

\* lines 79-112 and 350-351: the calls of a run whose computation completes,
\* in the order of the code
CompletedSteps ==
    <<"engine", "channel_analysis", "alignment_analysis", "store", "add", "commit">>

\* lines 169-177, 76-112 and 338-351: the conversions arrive; the rows are
\* converted, the engine and the analyzer run, and the writer adds the document
\* to the session and awaits the commit.  A ZeroDivisionError of the engine or
\* of the analyzer reaches `except Exception` (line 117) and is raised again.
ConversionsLoaded ==
    /\ pc = "await_conversions" /\ ~cancel_requested
    /\ \E rows \in {[loaded EXCEPT !.conversions = ConversionQuery(db, request)]} :
       \E doc \in {ComprehensiveResults(rows, request)} :
           /\ loaded' = rows
           /\ IF doc.attribution.exc # None
              THEN /\ pc' = "raised"
                   /\ outcome' = [kind |-> "error", error |-> doc.attribution.exc,
                                  results |-> None]
                   /\ events' = events \o <<"engine", "raise">>
                   /\ UNCHANGED session
              ELSE IF doc.exc # None
              THEN /\ pc' = "raised"
                   /\ outcome' = [kind |-> "error", error |-> doc.exc, results |-> None]
                   /\ events' = events \o <<"engine", "channel_analysis", "raise">>
                   /\ UNCHANGED session
              ELSE /\ pc' = "await_commit"
                   /\ session' = [session EXCEPT !.added = Append(@, doc)]
                   /\ events' = events \o CompletedSteps
                   /\ UNCHANGED outcome
    /\ UNCHANGED <<db, request, cancel_requested, engine_vars>>

\* a query raises: `except Exception` (line 117) logs and raises again
ExecuteRaises ==
    /\ pc \in LoadAwaits /\ ~cancel_requested
    /\ pc' = "raised"
    /\ outcome' = [kind |-> "error", error |-> Some("fetch"), results |-> None]
    /\ events' = Append(events, "raise")
    /\ UNCHANGED <<db, request, loaded, session, cancel_requested, engine_vars>>

\* lines 351-353 and 114-115: the commit is done, the document is returned
CommitDone ==
    /\ pc = "await_commit" /\ ~cancel_requested
    /\ session' = [session EXCEPT !.committed = @ \o session.added, !.added = <<>>]
    /\ pc' = "returned"
    /\ outcome' = [kind |-> "success", error |-> None,
                   results |-> Some(session.added[Len(session.added)])]
    /\ events' = Append(events, "return")
    /\ UNCHANGED <<db, request, loaded, cancel_requested, engine_vars>>

\* a slip of the code: the writer's handler raises the error again without
\* the rollback
CommitRaisesNoRollback ==
    /\ pc = "await_commit" /\ ~cancel_requested
    /\ pc' = "raised"
    /\ outcome' = [kind |-> "error", error |-> Some("store"), results |-> None]
    /\ events' = events \o <<"commit_raised", "raise">>
    /\ UNCHANGED <<db, request, loaded, session, cancel_requested, engine_vars>>

\* lines 355-357: the commit raises; the writer logs and awaits the rollback
CommitRaises ==
    /\ pc = "await_commit" /\ ~cancel_requested
    /\ pc' = "await_rollback"
    /\ events' = events \o <<"commit_raised", "rollback">>
    /\ UNCHANGED <<db, request, loaded, session, outcome, cancel_requested, engine_vars>>

\* a slip of the code: the writer's handler swallows the error after the
\* rollback and the document is returned
RollbackThenReturn ==
    /\ pc = "await_rollback" /\ ~cancel_requested
    /\ session' = [session EXCEPT !.rollbacks = @ + 1]
    /\ pc' = "returned"
    /\ outcome' = [kind |-> "success", error |-> None,
                   results |-> Some(session.added[Len(session.added)])]
    /\ events' = Append(events, "return")
    /\ UNCHANGED <<db, request, loaded, cancel_requested, engine_vars>>

\* lines 357-358 and 117-119: after the rollback the writer raises the error
\* again, and so does calculate_b2b_attribution
RollbackDone ==
    /\ pc = "await_rollback" /\ ~cancel_requested
    /\ session' = [session EXCEPT !.added = <<>>, !.rollbacks = @ + 1]
    /\ pc' = "raised"
    /\ outcome' = [kind |-> "error", error |-> Some("store"), results |-> None]
    /\ events' = Append(events, "raise")
    /\ UNCHANGED <<db, request, loaded, cancel_requested, engine_vars>>

\* line 357: the rollback itself raises; its error leaves the writer and
\* reaches `except Exception` (line 117), which raises it again
RollbackRaises ==
    /\ pc = "await_rollback" /\ ~cancel_requested
    /\ pc' = "raised"
    /\ outcome' = [kind |-> "error", error |-> Some("rollback"), results |-> None]
    /\ events' = Append(events, "raise")
    /\ UNCHANGED <<db, request, loaded, session, cancel_requested, engine_vars>>

\* the caller cancels the task while it is suspended
CancelRequest ==
    /\ pc \in Awaits /\ ~cancel_requested
    /\ cancel_requested' = TRUE
    /\ UNCHANGED <<db, request, pc, loaded, session, outcome, events, engine_vars>>

\* CancelledError is raised at the await and leaves the call through both
\* handlers.  At the commit, the commit may or may not have been done.
CancelDelivered ==
    /\ pc \in Awaits /\ cancel_requested
    /\ pc' = "cancelled"
    /\ outcome' = [kind |-> "cancelled", error |-> None, results |-> None]
    /\ events' = Append(events, "cancelled")
    /\ \E done \in BOOLEAN :
          session' = IF pc = "await_commit" /\ done
                     THEN [session EXCEPT !.committed = @ \o session.added,
                                          !.added = <<>>]
                     ELSE session
    /\ UNCHANGED <<db, request, loaded, cancel_requested, engine_vars>>

Next ==
    \/ BeginLoad
    \/ TouchpointsLoaded
    \/ CustomersLoaded
    \/ ConversionsLoaded
    \/ ExecuteRaises
    \/ CommitDone
    \/ CommitRaises
    \/ RollbackDone
    \/ RollbackRaises
    \/ CancelRequest
    \/ CancelDelivered

Spec == Init /\ [][Next]_vars

(***************************************************************************)
(* The claims about calculate_b2b_attribution, under Spec.                 *)
(***************************************************************************)
Count(ev, e) == Cardinality({i \in 1..Len(ev) : ev[i] = e})
Occurs(ev, e) == \E i \in 1..Len(ev) : ev[i] = e
Pos(ev, e) == CHOOSE i \in 1..Len(ev) : ev[i] = e
Combined(doc) == doc.attribution.combined_b2b_attribution
TimeWeighted(doc) == doc.attribution.time_weighted_attribution
OnlyTime == WeightVector(One, Zero, Zero, Zero, Zero)

\* C5: a request with the weights (time=1, quality=0, account=0, stage=0,
\* velocity=0) returns a document whose combined map equals its
\* time-weighted map on every touchpoint id.
SuppliedWeightsApplied ==
    (pc = "returned" /\ request.attribution_weights = Some(OnlyTime)) =>
        \A id \in DOMAIN Combined(outcome.results[1])
                    \cup DOMAIN TimeWeighted(outcome.results[1]) :
            Get(Combined(outcome.results[1]), id)
                = Get(TimeWeighted(outcome.results[1]), id)

\* the input the claim calls invalid
InvalidWindow(req) ==
    req.date_from # None /\ req.date_to # None /\ req.date_to[1] < req.date_from[1]
InvalidWeights(req) ==
    /\ req.attribution_weights # None
    /\ \/ \E f \in Factors : RLt(req.attribution_weights[1][f], Zero)
       \/ RSumOver(req.attribution_weights[1], Factors) = Zero
InvalidRequest(req) == InvalidWindow(req) \/ InvalidWeights(req)

\* C6: a request with a window whose end is before its start, with a negative
\* weight or with weights that sum to zero fetches no records, invokes no
\* writer, returns no document, and ends with a validation error.
InvalidInputRejected ==
    InvalidRequest(request) =>
        /\ ~Occurs(events, "execute")
        /\ ~Occurs(events, "store")
        /\ outcome.results = None
        /\ pc \in {"returned", "raised"} => outcome.error = Some("validation")

WriterInvokedOnce ==
    /\ Count(events, "store") <= 1
    /\ Occurs(events, "alignment_analysis") =>
          /\ Count(events, "store") = 1
          /\ Pos(events, "channel_analysis") < Pos(events, "store")
          /\ Pos(events, "alignment_analysis") < Pos(events, "store")
    /\ Occurs(events, "store") =>
          Occurs(events, "engine") /\ Occurs(events, "alignment_analysis")
    /\ Occurs(events, "return") =>
          /\ Count(events, "store") = 1
          /\ Pos(events, "store") < Pos(events, "return")
          /\ outcome.results # None
    /\ outcome.error = Some("fetch") =>
          /\ ~Occurs(events, "store")
          /\ outcome.results = None
          /\ session.added = <<>> /\ session.committed = <<>>

WriterInvokedOnceWitness ==
    /\ pc = "returned"
    /\ Count(events, "store") = 1
    /\ Len(loaded.touchpoints) > 0 /\ Len(loaded.conversions) > 0
    /\ session.committed = <<outcome.results[1]>>

\* C9: a cancelled request ends in the outcome 'cancelled', which is neither
\* success nor error, and the writer was not invoked for it: nothing was added
\* to the session and nothing was committed.
CancelledLeavesWriterUntouched ==
    pc = "cancelled" =>
        /\ outcome.kind = "cancelled"
        /\ ~Occurs(events, "store")
        /\ session.added = <<>> /\ session.committed = <<>>

(***************************************************************************)
(* The five factor functions called on one input, then the combiner on     *)
(* their maps (the calls of b2b_specific_attribution, lines 143-171, made  *)
(* one by one, the combiner with the weights of the caller).               *)
(***************************************************************************)
\* engagement at both ends of [0, 100], a marketing and a sales type
FactorTouchpoints ==
    {Touchpoint(a, 0, "content_download", e, FALSE, TRUE) : a \in Accounts, e \in {0, 100}}
        \cup {Touchpoint(a, 0, "sales_call", 100, FALSE, TRUE) : a \in Accounts}

\* a fast deal, an amount of 0 with a cycle far over the expected one,
\* and a slow enterprise deal with a large committee
FactorOpportunities ==
    {Opportunity("acct_1", 1000, 0, None, 30, "smb", 1, 0),
     Opportunity("acct_1", 0, 0, None, 400, "smb", 0, 0),
     Opportunity("acct_2", 2500, 0, None, 405, "enterprise", 3, 3)}

\* a lead of score 0, leads of both accounts
FactorLeads ==
    {<<Lead("acct_1", 0, "D")>>,
     <<Lead("acct_1", 100, "A"), Lead("acct_2", 50, "C")>>}

FactorWeights ==
    {None, Some(WeightVector(Rat(5, 10), Rat(2, 10), Rat(2, 10), Rat(5, 100), Rat(5, 100)))}

InitFactors ==
    /\ touchpoint_data \in TouchpointLists(FactorTouchpoints)
    /\ opportunity_data \in OpportunityLists(FactorOpportunities)
    /\ lead_data \in FactorLeads
    /\ weights \in FactorWeights
    /\ factors = NoFactors
    /\ call = NoCall
    /\ ServiceIdle

FactorMaps(leads, opps, tps) ==
    [f \in Factors |->
        CASE f = "time"     -> calculate_b2b_time_decay(tps, opps)
          [] f = "quality"  -> calculate_lead_quality_impact(leads, tps)
          [] f = "account"  -> calculate_account_level_attribution(opps, tps)
          [] f = "stage"    -> calculate_stage_progression_attribution(tps)
          [] f = "velocity" -> calculate_pipeline_velocity_impact(opps, tps)]

CallFactors ==
    /\ call.op = "none"
    /\ factors' = FactorMaps(lead_data, opportunity_data, touchpoint_data)
    /\ call' = [op |-> "factors", result |-> EmptyMap]
    /\ UNCHANGED <<lead_data, opportunity_data, touchpoint_data, weights, service_vars>>

CombineFactors ==
    /\ call.op = "factors"
    /\ CallCombine

NextFactors == CallFactors \/ CombineFactors

SpecFactors == InitFactors /\ [][NextFactors]_vars

\* C11: for inputs within the data model and non-negative weights, every
\* value of each of the five factor maps and of the combined map is >= 0.
FactorsNonNegative ==
    /\ \A f \in Factors : \A id \in DOMAIN factors[f] : RLe(Zero, factors[f][id])
    /\ call.op = "combine_b2b_attribution_factors" =>
          \A id \in DOMAIN call.result : RLe(Zero, call.result[id])

\* the combined map of an input with a slow deal, whose velocity bonus is the
\* floor 0.5, of engagement 100
FactorsNonNegativeWitness ==
    /\ call.op = "combine_b2b_attribution_factors"
    /\ \A f \in Factors : factors[f] # EmptyMap
    /\ \E k \in 1..Len(opportunity_data) :
          /\ VelocityBonus(opportunity_data[k]) = Rat(5, 10)
          /\ \E id \in DOMAIN factors["velocity"] :
                /\ touchpoint_data[id].account_id = opportunity_data[k].account_id
                /\ factors["velocity"][id] = Rat(5, 10)
    /\ \E id \in DOMAIN call.result : RLt(Zero, call.result[id])

(***************************************************************************)
(* _calculate_alignment_score called with three totals; the arguments of   *)
(* the call are kept in the call record.                                   *)
(***************************************************************************)
AlignmentTotals == {0, 10, 20, 40, 50, 100}

InitAlignmentScore ==
    /\ call \in {[op |-> "none", result |-> EmptyMap,
                  args |-> [sales |-> Rat(sl, 1), marketing |-> Rat(m, 1),
                            joint |-> Rat(j, 1)]] :
                    sl \in AlignmentTotals, m \in AlignmentTotals, j \in AlignmentTotals}
    /\ touchpoint_data = <<>>
    /\ opportunity_data = <<>>
    /\ lead_data = <<>>
    /\ factors = NoFactors
    /\ weights = None
    /\ ServiceIdle

CallAlignmentScore ==
    /\ call.op = "none"
    /\ call' = [call EXCEPT !.op = "_calculate_alignment_score",
                            !.result = _calculate_alignment_score(call.args.sales,
                                           call.args.marketing, call.args.joint)]
    /\ UNCHANGED <<lead_data, opportunity_data, touchpoint_data, factors, weights,
                 service_vars>>

SpecAlignmentScore == InitAlignmentScore /\ [][CallAlignmentScore]_vars

AbsDiff(p, q) == IF RLt(p, q) THEN RSub(q, p) ELSE RSub(p, q)
Percent(x, total) == RMul(RDiv(x, total), Rat(100, 1))
ArgsTotal(a) == RAdd(RAdd(a.sales, a.marketing), a.joint)
Deviation(a) ==
    RAdd(RAdd(AbsDiff(Percent(a.marketing, ArgsTotal(a)), Rat(40, 1)),
              AbsDiff(Percent(a.sales, ArgsTotal(a)), Rat(40, 1))),
         AbsDiff(Percent(a.joint, ArgsTotal(a)), Rat(20, 1)))
IdealSplit(a) ==
    /\ ArgsTotal(a) # Zero
    /\ Percent(a.marketing, ArgsTotal(a)) = Rat(40, 1)
    /\ Percent(a.sales, ArgsTotal(a)) = Rat(40, 1)
    /\ Percent(a.joint, ArgsTotal(a)) = Rat(20, 1)

\* C12: the alignment score is 0 when the three totals sum to 0 and otherwise
\* max(0, 100 - (|marketing% - 40| + |sales% - 40| + |joint% - 20|)); it lies
\* in [0, 100], and it is 100 exactly at the split 40/40/20.
AlignmentScoreFormula ==
    call.op = "_calculate_alignment_score" =>
        /\ ArgsTotal(call.args) = Zero => call.result = Zero
        /\ ArgsTotal(call.args) # Zero =>
              call.result = RMax(Zero, RSub(Rat(100, 1), Deviation(call.args)))
        /\ RLe(Zero, call.result) /\ RLe(call.result, Rat(100, 1))
        /\ call.result = Rat(100, 1) <=> IdealSplit(call.args)

\* a split whose deviations pass 100, where the floor 0 decides the score
AlignmentScoreFormulaWitness ==
    /\ call.op = "_calculate_alignment_score"
    /\ ArgsTotal(call.args) # Zero
    /\ RLt(Rat(100, 1), Deviation(call.args))
    /\ call.result = Zero

(***************************************************************************)
(* get_sales_marketing_alignment_report as an asyncio task: the load of    *)
(* _load_b2b_data, then the report.  The operation has no handler of its   *)
(* own: what the engine raises leaves it.                                  *)
(***************************************************************************)
_get_alignment_grade(score) ==
    IF RLe(Rat(90, 1), score) THEN "A+"
    ELSE IF RLe(Rat(80, 1), score) THEN "A"
    ELSE IF RLe(Rat(70, 1), score) THEN "B"
    ELSE IF RLe(Rat(60, 1), score) THEN "C"
    ELSE IF RLe(Rat(50, 1), score) THEN "D"
    ELSE "F"

\* a slip of the code: the joint rule fires below 20, not below 10
RecommendationsJointBelowTwenty(alignment_data) ==
    LET score == alignment_data.alignment_score
        sales_pct == alignment_data.sales_percentage
        marketing_pct == alignment_data.marketing_percentage
        joint_pct == alignment_data.joint_percentage
        when(c, text) == IF c THEN <<text>> ELSE <<>>
    IN  when(RLt(score, Rat(50, 1)), "Poor sales-marketing alignment detected")
        \o (IF RLt(Rat(60, 1), sales_pct) THEN <<"Sales is dominating attribution">>
            ELSE when(RLt(sales_pct, Rat(20, 1)), "Sales involvement is low"))
        \o (IF RLt(Rat(60, 1), marketing_pct)
            THEN <<"Marketing is dominating attribution">>
            ELSE when(RLt(marketing_pct, Rat(20, 1)), "Marketing involvement is low"))
        \o (IF RLt(joint_pct, Rat(20, 1))
            THEN <<"Very few joint sales-marketing touchpoints">>
            ELSE when(RLt(Rat(40, 1), joint_pct), "High joint touchpoint percentage"))
        \o when(RLe(Rat(80, 1), score), "Excellent alignment")

\* the recommendations, each named by its first words
_generate_alignment_recommendations(alignment_data) ==
    LET score == alignment_data.alignment_score
        sales_pct == alignment_data.sales_percentage
        marketing_pct == alignment_data.marketing_percentage
        joint_pct == alignment_data.joint_percentage
        when(c, text) == IF c THEN <<text>> ELSE <<>>
    IN  when(RLt(score, Rat(50, 1)), "Poor sales-marketing alignment detected")
        \o (IF RLt(Rat(60, 1), sales_pct) THEN <<"Sales is dominating attribution">>
            ELSE when(RLt(sales_pct, Rat(20, 1)), "Sales involvement is low"))
        \o (IF RLt(Rat(60, 1), marketing_pct)
            THEN <<"Marketing is dominating attribution">>
            ELSE when(RLt(marketing_pct, Rat(20, 1)), "Marketing involvement is low"))
        \o (IF RLt(joint_pct, Rat(10, 1))
            THEN <<"Very few joint sales-marketing touchpoints">>
            ELSE when(RLt(Rat(40, 1), joint_pct), "High joint touchpoint percentage"))
        \o when(RLe(Rat(80, 1), score), "Excellent alignment")

\* lines 487-491: the analysis with the recommendations and the grade
ReportOf(alignment_analysis) ==
    [recommendations |-> _generate_alignment_recommendations(alignment_analysis),
     grade |-> _get_alignment_grade(alignment_analysis.alignment_score)]
        @@ alignment_analysis

\* lines 474-485: the engine and the alignment analysis
ReportOfAttribution(attribution_results, tps) ==
    IF attribution_results.exc # None
    THEN [exc |-> attribution_results.exc, report |-> EmptyMap]
    ELSE [exc |-> None,
          report |-> ReportOf(analyze_sales_marketing_alignment(
                                  attribution_results.combined_b2b_attribution, tps))]

\* lines 467-491
ReportOfData(leads, opps, tps) ==
    IF tps = <<>>
    THEN [exc |-> None,
          report |-> [alignment_score |-> Zero,
                      recommendations |->
                          <<"No touchpoint data available for analysis">>]]
    ELSE ReportOfAttribution(b2b_specific_attribution(leads, opps, tps), tps)

AlignmentReport(rows) ==
    ReportOfData(_convert_customers_to_leads(rows.customers),
                 _convert_conversions_to_opportunities(rows.conversions),
                 _convert_touchpoints_to_b2b_format(rows.touchpoints))

ReportRequests == {r \in Requests : r.attribution_weights = None}

InitReport ==
    /\ db \in ServiceDbs
    /\ request \in ReportRequests
    /\ pc = "start"
    /\ loaded = NoRows
    /\ session = EmptySession
    /\ outcome = Pending
    /\ cancel_requested = FALSE
    /\ events = <<>>
    /\ EngineIdle

\* lines 169-177 and 467-493: the conversions arrive and the report is made
ReportConversionsLoaded ==
    /\ pc = "await_conversions" /\ ~cancel_requested
    /\ \E rows \in {[loaded EXCEPT !.conversions = ConversionQuery(db, request)]} :
       \E r \in {AlignmentReport(rows)} :
           /\ loaded' = rows
           /\ IF r.exc # None
              THEN /\ pc' = "raised"
                   /\ outcome' = [kind |-> "error", error |-> r.exc, results |-> None]
                   /\ events' = events \o <<"engine", "raise">>
              ELSE /\ pc' = "returned"
                   /\ outcome' = [kind |-> "success", error |-> None,
                                  results |-> Some(r.report)]
                   /\ events' = Append(events, "return")
    /\ UNCHANGED <<db, request, session, cancel_requested, engine_vars>>

\* a query raises and the error leaves the operation
ReportExecuteRaises ==
    /\ pc \in LoadAwaits /\ ~cancel_requested
    /\ pc' = "raised"
    /\ outcome' = [kind |-> "error", error |-> Some("fetch"), results |-> None]
    /\ events' = Append(events, "raise")
    /\ UNCHANGED <<db, request, loaded, session, cancel_requested, engine_vars>>

NextReport ==
    \/ BeginLoad
    \/ TouchpointsLoaded
    \/ CustomersLoaded
    \/ ReportConversionsLoaded
    \/ ReportExecuteRaises

SpecReport == InitReport /\ [][NextReport]_vars

ReportKeys ==
    {"sales_attribution", "marketing_attribution", "joint_attribution",
     "alignment_score", "grade", "recommendations"}

\* C13: for every input whose records are loaded the report is returned, with
\* the partition totals, the score, a grade and recommendations; the grade is
\* the letter of the returned score (>=90 A+, >=80 A, >=70 B, >=60 C, >=50 D,
\* else F); when no touchpoint matches, the score is 0 and the grade is F.
AlignmentReportComplete ==
    /\ pc = "raised" => outcome.error = Some("fetch")
    /\ pc = "returned" =>
          /\ ReportKeys \subseteq DOMAIN outcome.results[1]
          /\ outcome.results[1].grade =
                _get_alignment_grade(outcome.results[1].alignment_score)
          /\ loaded.touchpoints = <<>> =>
                /\ outcome.results[1].alignment_score = Zero
                /\ outcome.results[1].grade = "F"

(***************************************************************************)
(* analyze_sales_marketing_alignment called with a combined map and a      *)
(* touchpoint list; the map is kept in the call record.                    *)
(***************************************************************************)
\* the four combinations of the two flags
AlignmentTouchpoints ==
    {Touchpoint("acct_1", 0, "website_visit", 50, sl, m) : sl \in BOOLEAN, m \in BOOLEAN}

\* maps over some of the ids 1 .. MaxTouchpoints + 1; an id past the end of
\* the list is the id of no touchpoint
AttributionMaps ==
    UNION {[S -> {Zero, Rat(30, 1), Rat(50, 1)}] : S \in SUBSET (1..(MaxTouchpoints + 1))}

InitAlignment ==
    /\ touchpoint_data \in TouchpointLists(AlignmentTouchpoints)
    /\ call \in {[op |-> "none", result |-> EmptyMap, args |-> m] : m \in AttributionMaps}
    /\ opportunity_data = <<>>
    /\ lead_data = <<>>
    /\ factors = NoFactors
    /\ weights = None
    /\ ServiceIdle

CallAlignment ==
    /\ call.op = "none"
    /\ call' = [call EXCEPT !.op = "analyze_sales_marketing_alignment",
                            !.result = analyze_sales_marketing_alignment(call.args,
                                                                         touchpoint_data)]
    /\ UNCHANGED <<lead_data, opportunity_data, touchpoint_data, factors, weights,
                 service_vars>>

SpecAlignment == InitAlignment /\ [][CallAlignment]_vars

\* the ids of the map that are touchpoints with the given flags
Flagged(sl, m) ==
    {id \in DOMAIN call.args :
        /\ id \in 1..Len(touchpoint_data)
        /\ touchpoint_data[id].is_sales_touch = sl
        /\ touchpoint_data[id].is_marketing_touch = m}
FlaggedTotal ==
    RSumOver(call.args, Flagged(TRUE, TRUE) \cup Flagged(TRUE, FALSE)
                            \cup Flagged(FALSE, TRUE))

\* C14: each touchpoint's combined value is in exactly one bucket (joint with
\* both flags, sales with is_sales_touch only, marketing with
\* is_marketing_touch only, none with neither flag); the three totals sum to
\* the combined values of the touchpoints with a flag; the three percentages
\* sum to 100 when that sum is > 0 and are all 0 otherwise.
AlignmentPartition ==
    call.op = "analyze_sales_marketing_alignment" =>
        /\ call.result.joint_attribution = RSumOver(call.args, Flagged(TRUE, TRUE))
        /\ call.result.sales_attribution = RSumOver(call.args, Flagged(TRUE, FALSE))
        /\ call.result.marketing_attribution = RSumOver(call.args, Flagged(FALSE, TRUE))
        /\ RAdd(RAdd(call.result.sales_attribution, call.result.marketing_attribution),
                call.result.joint_attribution) = FlaggedTotal
        /\ IF RLt(Zero, FlaggedTotal)
           THEN RAdd(RAdd(call.result.sales_percentage,
                          call.result.marketing_percentage),
                     call.result.joint_percentage) = Rat(100, 1)
           ELSE /\ call.result.sales_percentage = Zero
                /\ call.result.marketing_percentage = Zero
                /\ call.result.joint_percentage = Zero

\* a joint touchpoint and one with neither flag, both with a positive value
AlignmentPartitionWitness ==
    /\ call.op = "analyze_sales_marketing_alignment"
    /\ \E id \in Flagged(TRUE, TRUE) : RLt(Zero, call.args[id])
    /\ \E id \in Flagged(FALSE, FALSE) : RLt(Zero, call.args[id])
    /\ call.result.joint_percentage = Rat(100, 1)

(***************************************************************************)
(* analyze_channel_performance called with a combined map and a touchpoint *)
(* list; the map is kept in the call record.                               *)
(***************************************************************************)
\* two channels, with and without cost
ChannelTouchpoints ==
    {[Touchpoint("acct_1", 0, "content_download", 50, FALSE, TRUE)
         EXCEPT !.channel = c, !.cost = k] :
        c \in {"paid_search", "email"}, k \in {0, 200}}

ChannelMaps ==
    UNION {[S -> {Zero, Rat(1000, 1)}] : S \in SUBSET (1..(MaxTouchpoints + 1))}

InitChannel ==
    /\ touchpoint_data \in TouchpointLists(ChannelTouchpoints)
    /\ call \in {[op |-> "none", result |-> EmptyMap, args |-> m] : m \in ChannelMaps}
    /\ opportunity_data = <<>>
    /\ lead_data = <<>>
    /\ factors = NoFactors
    /\ weights = None
    /\ ServiceIdle

CallChannel ==
    /\ call.op = "none"
    /\ call' = [call EXCEPT !.op = "analyze_channel_performance",
                            !.result = analyze_channel_performance(call.args,
                                                                   touchpoint_data)]
    /\ UNCHANGED <<lead_data, opportunity_data, touchpoint_data, factors, weights,
                 service_vars>>

SpecChannel == InitChannel /\ [][CallChannel]_vars

\* C15: the call does not raise, and for every channel roi is
\* (total_attribution - total_cost) / total_cost when total_cost > 0, else
\* +infinity when total_attribution > 0, else 0, and cost_per_attribution is
\* total_cost / total_attribution when total_attribution > 0, else 0.
ChannelMetricsTotal ==
    call.op = "analyze_channel_performance" =>
        /\ call.result.exc = None
        /\ \A c \in DOMAIN call.result.channels :
              LET m == call.result.channels[c]
              IN  /\ m.roi =
                        IF m.total_cost > 0
                        THEN RDiv(RSub(m.total_attribution, Rat(m.total_cost, 1)),
                                  Rat(m.total_cost, 1))
                        ELSE IF RLt(Zero, m.total_attribution) THEN Infinity ELSE Zero
                  /\ m.cost_per_attribution =
                        IF RLt(Zero, m.total_attribution)
                        THEN RDiv(Rat(m.total_cost, 1), m.total_attribution)
                        ELSE Zero

(***************************************************************************)
(* generate_attribution_summary on a dict in its insertion order: the      *)
(* argument is the sequence of the dict's items, of distinct ids.          *)
(***************************************************************************)
MaxItems == 3

\* sorted(items, key=value, reverse=True) is stable: items of equal value keep
\* the order they have in the dict.  Insert x behind the items that are not
\* smaller.
RECURSIVE InsertDescending(_, _)
InsertDescending(sorted, x) ==
    IF sorted = <<>> THEN <<x>>
    ELSE IF RLt(Head(sorted).value, x.value) THEN <<x>> \o sorted
    ELSE <<Head(sorted)>> \o InsertDescending(Tail(sorted), x)

RECURSIVE SortedDescending(_, _, _)
SortedDescending(items, k, acc) ==
    IF k > Len(items) THEN acc
    ELSE SortedDescending(items, k + 1, InsertDescending(acc, items[k]))

RECURSIVE SumValues(_)
SumValues(items) ==
    IF items = <<>> THEN Zero ELSE RAdd(Head(items).value, SumValues(Tail(items)))

Max2(a, b) == IF a >= b THEN a ELSE b
Min2(a, b) == IF a <= b THEN a ELSE b

\* lines 476-503; exc is the ZeroDivisionError of value/total_attribution
SummaryOfSorted(items, sorted_touchpoints, total_attribution, touchpoint_count) ==
    IF items = <<>> THEN [exc |-> None, summary |-> EmptyMap]
    ELSE IF total_attribution = Zero
    THEN [exc |-> Some("ZeroDivisionError"), summary |-> EmptyMap]
    ELSE [exc |-> None,
          summary |->
            [total_attribution_value |-> total_attribution,
             touchpoint_count |-> touchpoint_count,
             average_attribution_per_touchpoint |->
                 RDiv(total_attribution, Rat(touchpoint_count, 1)),
             top_contributing_touchpoints |->
                 [i \in 1..Min2(5, touchpoint_count) |->
                     [touchpoint_id |-> sorted_touchpoints[i].id,
                      attribution_value |-> sorted_touchpoints[i].value,
                      percentage |-> RMul(RDiv(sorted_touchpoints[i].value,
                                               total_attribution), Rat(100, 1))]],
             attribution_distribution |->
                 [top_20_percent |->
                      SumValues(SubSeq(sorted_touchpoints, 1,
                                       Max2(1, touchpoint_count \div 5))),
                  bottom_20_percent |->
                      SumValues(SubSeq(sorted_touchpoints,
                                       touchpoint_count - Max2(1, touchpoint_count \div 5) + 1,
                                       touchpoint_count))]]]

AttributionSummary(items) ==
    SummaryOfSorted(items, SortedDescending(items, 1, <<>>), SumValues(items), Len(items))

Item(id, value) == [id |-> id, value |-> value]

\* the dicts of at most MaxItems items in every insertion order, and two of
\* seven items, which pass the five of the top list
SummaryInputs ==
    {l \in UNION {[1..k -> {Item(id, v) : id \in 1..MaxItems,
                                          v \in {Zero, Rat(100, 1), Rat(200, 1)}}] :
                     k \in 0..MaxItems} :
        \A i, j \in 1..Len(l) : i # j => l[i].id # l[j].id}
    \cup {[i \in 1..7 |-> Item(i, Rat(100 * ((i % 3) + 1), 1))],
          [i \in 1..7 |-> Item(8 - i, Rat(100 * ((i % 2) + 1), 1))]}

InitSummary ==
    /\ call \in {[op |-> "none", result |-> EmptyMap, args |-> l] : l \in SummaryInputs}
    /\ touchpoint_data = <<>>
    /\ opportunity_data = <<>>
    /\ lead_data = <<>>
    /\ factors = NoFactors
    /\ weights = None
    /\ ServiceIdle

CallSummary ==
    /\ call.op = "none"
    /\ call' = [call EXCEPT !.op = "generate_attribution_summary",
                            !.result = AttributionSummary(call.args)]
    /\ UNCHANGED <<lead_data, opportunity_data, touchpoint_data, factors, weights,
                 service_vars>>

SpecSummary == InitSummary /\ [][CallSummary]_vars

\* a before b in the order of the claim: the larger value first, of equal
\* values the smaller id first
ClaimedBefore(a, b) ==
    \/ RLt(b.attribution_value, a.attribution_value)
    \/ a.attribution_value = b.attribution_value /\ a.touchpoint_id < b.touchpoint_id

\* the k largest and the k smallest values of the dict sum to these, in every
\* order of equal values
RECURSIVE LargestSum(_, _)
LargestSum(S, k) ==
    IF k = 0 \/ S = {} THEN Zero
    ELSE LET x == CHOOSE y \in S : \A z \in S : RLe(z.value, y.value)
         IN  RAdd(x.value, LargestSum(S \ {x}, k - 1))
RECURSIVE SmallestSum(_, _)
SmallestSum(S, k) ==
    IF k = 0 \/ S = {} THEN Zero
    ELSE LET x == CHOOSE y \in S : \A z \in S : RLe(y.value, z.value)
         IN  RAdd(x.value, SmallestSum(S \ {x}, k - 1))
ItemsOf(l) == {l[i] : i \in 1..Len(l)}

\* C16: the top list holds the min(5, count) largest items in non-increasing
\* order of value, items of equal value in ascending id order, in whatever
\* order the dict holds them; the top-20% and bottom-20% sums are over the
\* first and the last max(1, count div 5) items of that order.
TopTouchpointsOrdered ==
    (call.op = "generate_attribution_summary" /\ call.result.exc = None
        /\ call.args # <<>>) =>
        LET top == call.result.summary.top_contributing_touchpoints
            n == Len(call.args)
            k == Max2(1, n \div 5)
        IN  /\ Len(top) = Min2(5, n)
            /\ \A i, j \in 1..Len(top) : i < j => ClaimedBefore(top[i], top[j])
            /\ call.result.summary.attribution_distribution.top_20_percent
                  = LargestSum(ItemsOf(call.args), k)
            /\ call.result.summary.attribution_distribution.bottom_20_percent
                  = SmallestSum(ItemsOf(call.args), k)

\* C17: the summary is returned without raising for every dict, with the total,
\* the count and the average: total 0 and count 0 for the empty dict, and
\* total 0, the count and average 0 for a dict whose values are all 0.
SummaryNeverRaises ==
    call.op = "generate_attribution_summary" =>
        /\ call.result.exc = None
        /\ {"total_attribution_value", "touchpoint_count"}
              \subseteq DOMAIN call.result.summary
        /\ call.result.summary.total_attribution_value = SumValues(call.args)
        /\ call.result.summary.touchpoint_count = Len(call.args)
        /\ call.args # <<>> =>
              call.result.summary.average_attribution_per_touchpoint
                  = RDiv(SumValues(call.args), Rat(Len(call.args), 1))

\* a document of an input without touchpoints
EmptyDocument(doc) ==
    /\ doc.attribution.time_weighted_attribution = EmptyMap
    /\ doc.attribution.quality_weighted_attribution = EmptyMap
    /\ doc.attribution.account_based_attribution = EmptyMap
    /\ doc.attribution.stage_progression_attribution = EmptyMap
    /\ doc.attribution.pipeline_velocity_attribution = EmptyMap
    /\ doc.attribution.combined_b2b_attribution = EmptyMap
    /\ doc.channel_performance = EmptyMap
    /\ doc.sales_marketing_alignment.alignment_score = Zero

\* C18: a request whose window matches no touchpoint, once its records are
\* loaded, raises nothing in the engine or the analyzer and invokes the writer
\* exactly once, with a document whose five factor maps, combined map and
\* channel roll-up are empty and whose alignment score is 0; when the commit is
\* done the call returns that document as a success.
EmptyWindowStored ==
    (loaded.touchpoints = <<>> /\ Occurs(events, "engine")) =>
        /\ Count(events, "store") = 1
        /\ outcome.error \in {None, Some("store"), Some("rollback")}
        /\ pc = "await_commit" =>
              Len(session.added) = 1 /\ EmptyDocument(session.added[1])
        /\ pc = "returned" =>
              /\ outcome.kind = "success"
              /\ EmptyDocument(outcome.results[1])
              /\ session.committed = <<outcome.results[1]>>

\* touchpoints and a conversion in the database, the window matching none of
\* the touchpoints
EmptyWindowStoredWitness ==
    /\ pc = "returned"
    /\ db.touchpoints # <<>>
    /\ loaded.touchpoints = <<>>
    /\ loaded.conversions # <<>>
    /\ EmptyDocument(outcome.results[1])
    /\ outcome.results[1].metadata.touchpoints_analyzed = 0

(***************************************************************************)
(* Two calls of calculate_b2b_attribution as two asyncio tasks on one      *)
(* service object, with the same arguments over the same database, each    *)
(* with the session of its own request.  pc, loaded, session and outcome   *)
(* hold one value for each task.  The locals of a call (the loaded rows,   *)
(* the document) are its own; the service object holds the engine and the  *)
(* analyzer, whose attributes no call assigns.                             *)
(***************************************************************************)
Tasks == {1, 2}

\* no condition and the default weights, a window and supplied weights
ConcurrentRequests ==
    {[account_ids |-> None, date_from |-> None, date_to |-> None,
      attribution_weights |-> None],
     [account_ids |-> None, date_from |-> Some(40), date_to |-> Some(50),
      attribution_weights |-> Some(OnlyTime)]}

InitConcurrent ==
    /\ db \in ServiceDbs
    /\ request \in ConcurrentRequests
    /\ pc = [t \in Tasks |-> "start"]
    /\ loaded = [t \in Tasks |-> NoRows]
    /\ session = [t \in Tasks |-> EmptySession]
    /\ outcome = [t \in Tasks |-> Pending]
    /\ cancel_requested = FALSE
    /\ events = <<>>
    /\ EngineIdle

TaskUnchanged == <<db, request, cancel_requested, events, engine_vars>>

\* lines 59-149
TaskBeginLoad(t) ==
    /\ pc[t] = "start"
    /\ pc' = [pc EXCEPT ![t] = "await_touchpoints"]
    /\ UNCHANGED <<loaded, session, outcome, TaskUnchanged>>

\* a slip of the code: the loaded touchpoints kept in a list of the service
\* object, which every call extends
TaskTouchpointsAccumulated(t) ==
    /\ pc[t] = "await_touchpoints"
    /\ loaded' = [loaded EXCEPT ![t].touchpoints =
                     loaded[CHOOSE u \in Tasks : u # t].touchpoints
                         \o TouchpointQuery(db, request)]
    /\ pc' = [pc EXCEPT ![t] = "await_customers"]
    /\ UNCHANGED <<session, outcome, TaskUnchanged>>

\* lines 149-157
TaskTouchpointsLoaded(t) ==
    /\ pc[t] = "await_touchpoints"
    /\ loaded' = [loaded EXCEPT ![t].touchpoints = TouchpointQuery(db, request)]
    /\ pc' = [pc EXCEPT ![t] = "await_customers"]
    /\ UNCHANGED <<session, outcome, TaskUnchanged>>

\* lines 157-169
TaskCustomersLoaded(t) ==
    /\ pc[t] = "await_customers"
    /\ loaded' = [loaded EXCEPT ![t].customers = CustomerQuery(db, request)]
    /\ pc' = [pc EXCEPT ![t] = "await_conversions"]
    /\ UNCHANGED <<session, outcome, TaskUnchanged>>

\* lines 169-177, 76-112 and 338-351
TaskConversionsLoaded(t) ==
    /\ pc[t] = "await_conversions"
    /\ \E rows \in {[loaded[t] EXCEPT !.conversions = ConversionQuery(db, request)]} :
       \E doc \in {ComprehensiveResults(rows, request)} :
           /\ loaded' = [loaded EXCEPT ![t] = rows]
           /\ IF doc.exc # None
              THEN /\ pc' = [pc EXCEPT ![t] = "raised"]
                   /\ outcome' = [outcome EXCEPT ![t] =
                                     [kind |-> "error", error |-> doc.exc,
                                      results |-> None]]
                   /\ UNCHANGED session
              ELSE /\ pc' = [pc EXCEPT ![t] = "await_commit"]
                   /\ session' = [session EXCEPT ![t].added = Append(@, doc)]
                   /\ UNCHANGED outcome
    /\ UNCHANGED TaskUnchanged

\* a query raises (lines 117-119)
TaskExecuteRaises(t) ==
    /\ pc[t] \in LoadAwaits
    /\ pc' = [pc EXCEPT ![t] = "raised"]
    /\ outcome' = [outcome EXCEPT ![t] =
                      [kind |-> "error", error |-> Some("fetch"), results |-> None]]
    /\ UNCHANGED <<loaded, session, TaskUnchanged>>

\* lines 351-353 and 114-115
TaskCommitDone(t) ==
    /\ pc[t] = "await_commit"
    /\ session' = [session EXCEPT ![t].committed = @ \o session[t].added,
                                  ![t].added = <<>>]
    /\ pc' = [pc EXCEPT ![t] = "returned"]
    /\ outcome' = [outcome EXCEPT ![t] =
                      [kind |-> "success", error |-> None,
                       results |-> Some(session[t].added[Len(session[t].added)])]]
    /\ UNCHANGED <<loaded, TaskUnchanged>>

\* lines 355-358 and 117-119: the commit raises, the rollback, the error raised
TaskCommitRaises(t) ==
    /\ pc[t] = "await_commit"
    /\ pc' = [pc EXCEPT ![t] = "await_rollback"]
    /\ UNCHANGED <<loaded, session, outcome, TaskUnchanged>>

TaskRollbackDone(t) ==
    /\ pc[t] = "await_rollback"
    /\ session' = [session EXCEPT ![t].added = <<>>, ![t].rollbacks = @ + 1]
    /\ pc' = [pc EXCEPT ![t] = "raised"]
    /\ outcome' = [outcome EXCEPT ![t] =
                      [kind |-> "error", error |-> Some("store"), results |-> None]]
    /\ UNCHANGED <<loaded, TaskUnchanged>>

NextConcurrent ==
    \E t \in Tasks :
        \/ TaskBeginLoad(t)
        \/ TaskTouchpointsLoaded(t)
        \/ TaskCustomersLoaded(t)
        \/ TaskConversionsLoaded(t)
        \/ TaskExecuteRaises(t)
        \/ TaskCommitDone(t)
        \/ TaskCommitRaises(t)
        \/ TaskRollbackDone(t)

SpecConcurrent == InitConcurrent /\ [][NextConcurrent]_vars

\* the rows a call alone loads
LoadedAlone ==
    [touchpoints |-> TouchpointQuery(db, request),
     customers |-> CustomerQuery(db, request),
     conversions |-> ConversionQuery(db, request)]

\* C19: two concurrent calls with the same arguments over the same database
\* that both return, return the same document (the model leaves out the
\* metadata timestamp), whatever the interleaving; every call that returns,
\* returns the document of a call that runs alone.
ConcurrentResultsIdentical ==
    /\ (\A t \in Tasks : pc[t] = "returned") => outcome[1].results = outcome[2].results
    /\ \A t \in Tasks :
          pc[t] = "returned" =>
              /\ loaded[t] = LoadedAlone
              /\ outcome[t].results = Some(ComprehensiveResults(LoadedAlone, request))

\* both calls returned the same document, with a non-empty combined map, and
\* each committed its own session
ConcurrentResultsIdenticalWitness ==
    /\ \A t \in Tasks : pc[t] = "returned"
    /\ Combined(outcome[1].results[1]) # EmptyMap
    /\ outcome[1].results = outcome[2].results
    /\ session[1].committed # <<>> /\ session[2].committed # <<>>

(***************************************************************************)
(* attribution_models.py: the seven models of AttributionModelFactory,     *)
(* each created without arguments, so that its parameters are those of     *)
(* config/settings.py.  A touchpoint is a record of its id, its timestamp  *)
(* (whole days) and its channel_name.                                      *)
(***************************************************************************)
MaxJourney == 4

time_decay_half_life == 7
u_shaped_first_touch_weight == Rat(4, 10)
u_shaped_last_touch_weight == Rat(4, 10)
u_shaped_middle_weight == Rat(2, 10)
w_shaped_first_touch_weight == Rat(3, 10)
w_shaped_lead_creation_weight == Rat(3, 10)
w_shaped_opportunity_creation_weight == Rat(3, 10)
w_shaped_middle_weight == Rat(1, 10)

_models == {"first_touch", "last_touch", "linear", "time_decay", "u_shaped",
            "w_shaped", "data_driven"}

\* every touchpoint of the model carries the required fields
_validate_touchpoints(touchpoints) == touchpoints # <<>>

RECURSIVE InsertByTimestamp(_, _)
\* tp after every touchpoint of the sorted list that is not later than it
InsertByTimestamp(sorted_touchpoints, tp) ==
    IF sorted_touchpoints = <<>> THEN <<tp>>
    ELSE IF Head(sorted_touchpoints).timestamp <= tp.timestamp
         THEN <<Head(sorted_touchpoints)>>
                  \o InsertByTimestamp(Tail(sorted_touchpoints), tp)
         ELSE <<tp>> \o sorted_touchpoints

RECURSIVE _sort_touchpoints(_)
\* sorted(touchpoints, key=timestamp): stable
_sort_touchpoints(touchpoints) ==
    IF touchpoints = <<>> THEN <<>>
    ELSE InsertByTimestamp(
             _sort_touchpoints(SubSeq(touchpoints, 1, Len(touchpoints) - 1)),
             touchpoints[Len(touchpoints)])

TouchpointIds(touchpoints) == {touchpoints[i].id : i \in DOMAIN touchpoints}

\* {tp['id']: 0.0 for tp in touchpoints}
ZeroAttribution(touchpoints) == [k \in TouchpointIds(touchpoints) |-> Zero]

\* the last index of the list with this id: a later assignment to a key of the
\* dict replaces an earlier one
LastIndexOf(touchpoints, k) ==
    CHOOSE i \in DOMAIN touchpoints :
        /\ touchpoints[i].id = k
        /\ \A j \in DOMAIN touchpoints : j > i => touchpoints[j].id # k

\* {tp['id']: weights[i] / total_weight * conversion_value}, weights[i] of
\* touchpoints[i]
NormalizedAttribution(touchpoints, model_weights, conversion_value) ==
    LET total_weight == RSumOver(model_weights, DOMAIN model_weights)
    IN  IF total_weight = Zero THEN ZeroAttribution(touchpoints)
        ELSE [k \in TouchpointIds(touchpoints) |->
                 RMul(RDiv(model_weights[LastIndexOf(touchpoints, k)], total_weight),
                      conversion_value)]

FirstTouchAttribution(touchpoints, conversion_value) ==
    IF ~_validate_touchpoints(touchpoints) THEN EmptyMap
    ELSE LET sorted_touchpoints == _sort_touchpoints(touchpoints)
         IN  Assign(ZeroAttribution(touchpoints),
                    [k \in {sorted_touchpoints[1].id} |-> conversion_value])

LastTouchAttribution(touchpoints, conversion_value) ==
    IF ~_validate_touchpoints(touchpoints) THEN EmptyMap
    ELSE LET sorted_touchpoints == _sort_touchpoints(touchpoints)
         IN  Assign(ZeroAttribution(touchpoints),
                    [k \in {sorted_touchpoints[Len(sorted_touchpoints)].id} |->
                        conversion_value])

LinearAttribution(touchpoints, conversion_value) ==
    IF ~_validate_touchpoints(touchpoints) THEN EmptyMap
    ELSE [k \in TouchpointIds(touchpoints) |->
             RDiv(conversion_value, Rat(Len(touchpoints), 1))]

\* 2 ** (-days_to_conversion / half_life_days), for a number of days that is a
\* multiple of the half-life: at every other number the power is irrational,
\* and the touchpoints of the model are whole half-lives apart
HalfLifeWeight(days_to_conversion) ==
    Rat(1, 2 ^ (days_to_conversion \div time_decay_half_life))

TimeDecayAttribution(touchpoints, conversion_value) ==
    IF ~_validate_touchpoints(touchpoints) THEN EmptyMap
    ELSE LET sorted_touchpoints == _sort_touchpoints(touchpoints)
             conversion_time == sorted_touchpoints[Len(sorted_touchpoints)].timestamp
             days_to_conversion(i) ==
                 IF conversion_time - sorted_touchpoints[i].timestamp < 0 THEN 0
                 ELSE conversion_time - sorted_touchpoints[i].timestamp
             model_weights == [i \in DOMAIN sorted_touchpoints |->
                                  HalfLifeWeight(days_to_conversion(i))]
         IN  NormalizedAttribution(sorted_touchpoints, model_weights, conversion_value)

UShapedAttribution(touchpoints, conversion_value) ==
    IF ~_validate_touchpoints(touchpoints) THEN EmptyMap
    ELSE LET sorted_touchpoints == _sort_touchpoints(touchpoints)
             touchpoint_count == Len(sorted_touchpoints)
             attribution == ZeroAttribution(touchpoints)
             first_id == sorted_touchpoints[1].id
             last_id == sorted_touchpoints[touchpoint_count].id
             middle_ids == {sorted_touchpoints[i].id : i \in 2..(touchpoint_count - 1)}
             middle_weight_per_tp ==
                 RDiv(RMul(conversion_value, u_shaped_middle_weight),
                      Rat(touchpoint_count - 2, 1))
         IN  IF touchpoint_count = 1
             THEN Assign(attribution, [k \in {first_id} |-> conversion_value])
             ELSE IF touchpoint_count = 2
             THEN Assign(Assign(attribution,
                                [k \in {first_id} |-> RMul(conversion_value, Rat(1, 2))]),
                         [k \in {last_id} |-> RMul(conversion_value, Rat(1, 2))])
             ELSE Assign(Assign(Assign(attribution,
                                       [k \in {first_id} |->
                                           RMul(conversion_value,
                                                u_shaped_first_touch_weight)]),
                                [k \in {last_id} |->
                                    RMul(conversion_value, u_shaped_last_touch_weight)]),
                         [k \in middle_ids |-> middle_weight_per_tp])

\* the W of lines 281-338 for a sorted journey of three or more touchpoints
WShapedOfSorted(sorted_touchpoints, attribution, conversion_value) ==
    LET first_tp == sorted_touchpoints[1]
        middle_index == Len(sorted_touchpoints) \div 2
        opportunity_tp == sorted_touchpoints[middle_index + 1]
        lead_index == Len(sorted_touchpoints) \div 3
        lead_tp == IF lead_index > 0 THEN sorted_touchpoints[lead_index + 1]
                   ELSE first_tp
        key_touchpoint_ids == {first_tp.id, lead_tp.id, opportunity_tp.id}
        other_touchpoints == {i \in DOMAIN sorted_touchpoints :
                                 sorted_touchpoints[i].id \notin key_touchpoint_ids}
        weight_per_other ==
            RDiv(RMul(conversion_value, w_shaped_middle_weight),
                 Rat(Cardinality(other_touchpoints), 1))
        first_share(k) ==
            IF k = first_tp.id
            THEN RMul(conversion_value, w_shaped_first_touch_weight) ELSE Zero
        lead_share(k) ==
            IF k = lead_tp.id /\ lead_tp.id # first_tp.id
            THEN RMul(conversion_value, w_shaped_lead_creation_weight) ELSE Zero
        opportunity_share(k) ==
            IF k = opportunity_tp.id /\ opportunity_tp.id \notin {first_tp.id, lead_tp.id}
            THEN RMul(conversion_value, w_shaped_opportunity_creation_weight)
            ELSE Zero
        other_share(k) ==
            IF other_touchpoints = {} THEN Zero
            ELSE RMul(Rat(Cardinality({i \in other_touchpoints :
                                          sorted_touchpoints[i].id = k}), 1),
                      weight_per_other)
    IN  [k \in DOMAIN attribution |->
            RAdd(RAdd(attribution[k], first_share(k)),
                 RAdd(RAdd(lead_share(k), opportunity_share(k)), other_share(k)))]

WShapedAttribution(touchpoints, conversion_value) ==
    IF ~_validate_touchpoints(touchpoints) THEN EmptyMap
    ELSE IF Len(touchpoints) <= 2 THEN UShapedAttribution(touchpoints, conversion_value)
    ELSE WShapedOfSorted(_sort_touchpoints(touchpoints), ZeroAttribution(touchpoints),
                         conversion_value)

\* channel_weights.get(name, 1.0)
ChannelWeight(channel_name) ==
    CASE channel_name = "organic_search" -> Rat(12, 10)
      [] channel_name = "paid_search" -> Rat(11, 10)
      [] channel_name = "social" -> Rat(9, 10)
      [] channel_name = "email" -> Rat(10, 10)
      [] channel_name = "direct" -> Rat(13, 10)
      [] channel_name = "referral" -> Rat(10, 10)
      [] channel_name = "display" -> Rat(8, 10)
      [] OTHER -> Rat(10, 10)

DataDrivenAttribution(touchpoints, conversion_value) ==
    IF ~_validate_touchpoints(touchpoints) THEN EmptyMap
    ELSE LET model_weights == [i \in DOMAIN touchpoints |->
                                  ChannelWeight(Lower(touchpoints[i].channel_name))]
         IN  NormalizedAttribution(touchpoints, model_weights, conversion_value)

\* AttributionModelFactory.create_model(model_name).calculate_attribution(...)
calculate_attribution(model_name, touchpoints, conversion_value) ==
    CASE model_name = "first_touch" -> FirstTouchAttribution(touchpoints, conversion_value)
      [] model_name = "last_touch" -> LastTouchAttribution(touchpoints, conversion_value)
      [] model_name = "linear" -> LinearAttribution(touchpoints, conversion_value)
      [] model_name = "time_decay" -> TimeDecayAttribution(touchpoints, conversion_value)
      [] model_name = "u_shaped" -> UShapedAttribution(touchpoints, conversion_value)
      [] model_name = "w_shaped" -> WShapedAttribution(touchpoints, conversion_value)
      [] model_name = "data_driven" -> DataDrivenAttribution(touchpoints, conversion_value)

\* journeys of one to MaxJourney touchpoints with distinct ids, whole half-lives
\* apart or at one time, in every order of the timestamps
JourneyTimestamps == {0, time_decay_half_life}
JourneyChannels == {"display", "Direct"}
Journeys ==
    UNION {{[i \in 1..n |-> [id |-> i, timestamp |-> ts[i], channel_name |-> ch[i]]] :
               ts \in [1..n -> JourneyTimestamps], ch \in [1..n -> JourneyChannels]} :
           n \in 1..MaxJourney}
ConversionValues == {One, Rat(100, 1)}

InitModels ==
    /\ call \in {[op |-> "none", result |-> EmptyMap,
                  args |-> [model_name |-> m, touchpoints |-> l, conversion_value |-> v]] :
                    m \in _models, l \in Journeys, v \in ConversionValues}
    /\ touchpoint_data = <<>>
    /\ opportunity_data = <<>>
    /\ lead_data = <<>>
    /\ factors = NoFactors
    /\ weights = None
    /\ ServiceIdle

CallModel ==
    /\ call.op = "none"
    /\ call' = [call EXCEPT !.op = "calculate_attribution",
                            !.result = calculate_attribution(call.args.model_name,
                                                             call.args.touchpoints,
                                                             call.args.conversion_value)]
    /\ UNCHANGED <<lead_data, opportunity_data, touchpoint_data, factors, weights,
                 service_vars>>

SpecModels == InitModels /\ [][CallModel]_vars

\* C20: for every model of the factory with its default parameters and every
\* journey of one or more touchpoints with distinct ids, the values of the
\* returned dict sum to the conversion value.
ModelsSumToConversionValue ==
    call.op = "calculate_attribution" =>
        RSumOver(call.result, DOMAIN call.result) = call.args.conversion_value

\* the same of every model but w_shaped, and of w_shaped for every journey that
\* has not three touchpoints
OtherModelsSumToConversionValue ==
    (/\ call.op = "calculate_attribution"
     /\ ~(call.args.model_name = "w_shaped" /\ Len(call.args.touchpoints) = 3))
        => RSumOver(call.result, DOMAIN call.result) = call.args.conversion_value

\* w_shaped over three touchpoints gives 0.3, 0.3 and 0.1 of the conversion
\* value: the second touchpoint is both the lead and the opportunity touchpoint
WShapedThreeSumsToSevenTenths ==
    (/\ call.op = "calculate_attribution"
     /\ call.args.model_name = "w_shaped"
     /\ Len(call.args.touchpoints) = 3)
        => RSumOver(call.result, DOMAIN call.result)
               = RMul(call.args.conversion_value, Rat(7, 10))

(***************************************************************************)
(* Order of the time-weighted values in time.                              *)
(***************************************************************************)
\* close_date, or created_date when close_date is absent
ConversionDate(opp) ==
    IF opp.close_date # None THEN opp.close_date[1] ELSE opp.created_date

\* indices of two touchpoints of the account of opportunity k of one type
SameTypePairs(k) ==
    LET idx == AccountTouchpoints(touchpoint_data, opportunity_data[k].account_id)
    IN  {p \in idx \X idx :
            touchpoint_data[p[1]].touchpoint_type = touchpoint_data[p[2]].touchpoint_type}

\* C21: in the time-weighted map of an opportunity that is alone in its
\* account, of two touchpoints of the account with the same type the later one
\* never has the smaller value, and two that are both at or after the
\* conversion date (close_date, or created_date without one) have the same
\* value, that of a touchpoint exactly at the conversion date.
LaterNeverSmaller ==
    call.op = "calculate_b2b_time_decay" =>
        \A k \in 1..Len(opportunity_data) :
            OnlyOpportunityOfAccount(k) =>
                \A p \in SameTypePairs(k) :
                    LET a == touchpoint_data[p[1]]
                        b == touchpoint_data[p[2]]
                        conversion_date == ConversionDate(opportunity_data[k])
                    IN  /\ a.timestamp <= b.timestamp =>
                              RLe(call.result[a.touchpoint_id],
                                  call.result[b.touchpoint_id])
                        /\ (a.timestamp >= conversion_date
                                /\ b.timestamp >= conversion_date) =>
                              call.result[a.touchpoint_id] = call.result[b.touchpoint_id]

\* a lone opportunity with two touchpoints of one type: one before the
\* conversion date with the strictly smaller value and one after it; and a
\* lone opportunity with one at the conversion date and one after it
LaterNeverSmallerWitness ==
    /\ call.op = "calculate_b2b_time_decay"
    /\ \E k \in 1..Len(opportunity_data) :
          /\ OnlyOpportunityOfAccount(k)
          /\ \E p \in SameTypePairs(k) :
                LET a == touchpoint_data[p[1]]
                    b == touchpoint_data[p[2]]
                    conversion_date == ConversionDate(opportunity_data[k])
                IN  \/ /\ a.timestamp < conversion_date
                       /\ b.timestamp > conversion_date
                       /\ RLt(call.result[a.touchpoint_id], call.result[b.touchpoint_id])
                    \/ /\ a.timestamp = conversion_date
                       /\ b.timestamp > conversion_date
                       /\ call.result[a.touchpoint_id] = call.result[b.touchpoint_id]

(***************************************************************************)
(* The velocity multiplier of one opportunity, for the three tiers of the  *)
(* table and a tier outside it, and sales cycles of 1 day and of every     *)
(* multiple of 15 days up to MaxCycleSteps of them.                        *)
(***************************************************************************)
MaxCycleSteps == 48
VelocityCycles == {1} \cup {15 * n : n \in 1..MaxCycleSteps}
VelocityTiers == {"enterprise", "mid-market", "smb", "startup"}
VelocityOpportunity(tier, cycle) ==
    Opportunity("acct_1", 1000, 0, None, cycle, tier, 1, 0)

InitVelocityBonus ==
    /\ call \in {[op |-> "none", result |-> Zero, args |-> VelocityOpportunity(t, c)] :
                    t \in VelocityTiers, c \in VelocityCycles}
    /\ touchpoint_data = <<>>
    /\ opportunity_data = <<>>
    /\ lead_data = <<>>
    /\ factors = NoFactors
    /\ weights = None
    /\ ServiceIdle

\* lines 403-411 of calculate_pipeline_velocity_impact
CallVelocityBonus ==
    /\ call.op = "none"
    /\ call' = [call EXCEPT !.op = "velocity_bonus", !.result = VelocityBonus(call.args)]
    /\ UNCHANGED <<lead_data, opportunity_data, touchpoint_data, factors, weights,
                 service_vars>>

SpecVelocityBonus == InitVelocityBonus /\ [][CallVelocityBonus]_vars

\* expected cycle of the claim: 270/150/60 days, 180 for any other tier
ClaimedExpected(tier) ==
    IF tier = "enterprise" THEN 270
    ELSE IF tier = "mid-market" THEN 150
    ELSE IF tier = "smb" THEN 60
    ELSE 180

\* the multiplier of the claim for an actual and an expected cycle
ClaimedMultiplier(actual, expected) ==
    IF actual < expected
    THEN RAdd(One, RDiv(Rat(expected - actual, expected), Rat(2, 1)))
    ELSE RMax(Rat(1, 2),
              RSub(One, RDiv(Rat(3 * (actual - expected), expected), Rat(10, 1))))

\* C22: the velocity multiplier is 1 + ((expected - actual)/expected)*0.5 for
\* actual < expected and max(0.5, 1 - ((actual - expected)/expected)*0.3)
\* otherwise, with expected 270/150/60 for enterprise/mid-market/smb and 180
\* for any other tier; it lies in [0.5, 1.5), is non-increasing in the actual
\* cycle, and is 1.25 at half the expected cycle, 0.7 at twice the expected
\* cycle and 1 at the expected cycle.
VelocityMultiplierShape ==
    call.op = "velocity_bonus" =>
        LET actual == call.args.sales_cycle_days
            expected == ClaimedExpected(call.args.deal_size_tier)
        IN  /\ call.result = ClaimedMultiplier(actual, expected)
            /\ RLe(Rat(1, 2), call.result) /\ RLt(call.result, Rat(3, 2))
            /\ \A c \in VelocityCycles :
                  c >= actual =>
                      RLe(VelocityBonus([call.args EXCEPT !.sales_cycle_days = c]),
                          call.result)
            /\ 2 * actual = expected => call.result = Rat(125, 100)
            /\ actual = 2 * expected => call.result = Rat(7, 10)
            /\ actual = expected => call.result = One

\* a deal of a tier outside the table that took twice the 180 days, one at
\* half of them and one slow enough to reach the floor
VelocityMultiplierShapeWitness ==
    /\ call.op = "velocity_bonus"
    /\ call.args.deal_size_tier = "startup"
    /\ \/ call.args.sales_cycle_days = 360 /\ call.result = Rat(7, 10)
       \/ call.args.sales_cycle_days = 90 /\ call.result = Rat(125, 100)
       \/ call.args.sales_cycle_days = 720 /\ call.result = Rat(1, 2)

(***************************************************************************)
(* _generate_channel_insights on the channel roll-up in its insertion      *)
(* order: the argument is the sequence of the dict's items, of distinct    *)
(* channels, the ROI of an item in its field value.  An insight is the     *)
(* rule that produced it with the channel and the ROI its text names.      *)
(***************************************************************************)
ChannelItem(channel, roi, touchpoint_count, total_cost) ==
    [id |-> channel, value |-> roi, touchpoint_count |-> touchpoint_count,
     total_cost |-> total_cost]

Insight(rule, item) == [rule |-> rule, channel |-> item.id, roi |-> item.value]

\* for channel, metrics in channel_analysis.items(): the items that a rule
\* flags, in the order of the dict
RECURSIVE VolumeInsights(_)
VolumeInsights(items) ==
    IF items = <<>> THEN <<>>
    ELSE (IF Head(items).touchpoint_count > 10 /\ RLt(Head(items).value, One)
          THEN <<Insight("high_volume", Head(items))>> ELSE <<>>)
             \o VolumeInsights(Tail(items))

RECURSIVE CostInsights(_)
CostInsights(items) ==
    IF items = <<>> THEN <<>>
    ELSE (IF Head(items).total_cost > 1000 /\ RLt(Head(items).value, Rat(2, 1))
          THEN <<Insight("high_cost", Head(items))>> ELSE <<>>)
             \o CostInsights(Tail(items))

\* lines 407-448
_generate_channel_insights(items) ==
    IF items = <<>> THEN <<[rule |-> "no_data", channel |-> "", roi |-> Zero]>>
    ELSE LET channels_by_roi == SortedDescending(items, 1, <<>>)
             best_channel == channels_by_roi[1]
             worst_channel == channels_by_roi[Len(channels_by_roi)]
         IN  <<Insight("best", best_channel)>>
                 \o (IF RLt(worst_channel.value, Zero)
                     THEN <<Insight("worst", worst_channel)>> ELSE <<>>)
                 \o VolumeInsights(items)
                 \o CostInsights(items)

\* roll-ups of one to three channels in every order: ROI negative, below 1,
\* below 2 and above, many or few touchpoints, high or low cost
InsightChannels == {"email", "social", "webinar"}
InsightMetrics ==
    {<<Rat(-1, 2), 12, 2000>>, <<Rat(1, 2), 12, 500>>, <<Rat(1, 2), 12, 2000>>,
     <<Rat(3, 2), 5, 2000>>, <<Rat(3, 1), 5, 500>>}
InsightInputs ==
    UNION {{[i \in 1..n |-> ChannelItem(c[i], m[i][1], m[i][2], m[i][3])] :
               c \in {f \in [1..n -> InsightChannels] :
                         \A i, j \in 1..n : f[i] = f[j] => i = j},
               m \in [1..n -> InsightMetrics]} :
           n \in 0..Cardinality(InsightChannels)}

InitInsights ==
    /\ call \in {[op |-> "none", result |-> <<>>, args |-> l] : l \in InsightInputs}
    /\ touchpoint_data = <<>>
    /\ opportunity_data = <<>>
    /\ lead_data = <<>>
    /\ factors = NoFactors
    /\ weights = None
    /\ ServiceIdle

CallInsights ==
    /\ call.op = "none"
    /\ call' = [call EXCEPT !.op = "_generate_channel_insights",
                            !.result = _generate_channel_insights(call.args)]
    /\ UNCHANGED <<lead_data, opportunity_data, touchpoint_data, factors, weights,
                 service_vars>>

SpecInsights == InitInsights /\ [][CallInsights]_vars

\* the place of a rule in the list of the rules
RuleRank(rule) ==
    CASE rule = "best" -> 1
      [] rule = "worst" -> 2
      [] rule = "high_volume" -> 3
      [] rule = "high_cost" -> 4
      [] OTHER -> 0

\* C23: the insights are in the order of the rules (best, worst, high volume,
\* high cost), and the insights of one per-channel rule are in descending
\* order of ROI, whatever the order of the channels in the roll-up.
InsightsInRuleAndRoiOrder ==
    call.op = "_generate_channel_insights" =>
        \A i, j \in DOMAIN call.result :
            i < j =>
                /\ RuleRank(call.result[i].rule) <= RuleRank(call.result[j].rule)
                /\ (call.result[i].rule = call.result[j].rule
                        /\ call.result[i].rule \in {"high_volume", "high_cost"})
                       => RLe(call.result[j].roi, call.result[i].roi)

\* the insights are in the order of the rules, and those of one per-channel
\* rule in the order of the channels in the roll-up
InsightsInRuleAndDictOrder ==
    call.op = "_generate_channel_insights" =>
        /\ \A i, j \in DOMAIN call.result :
              i < j => RuleRank(call.result[i].rule) <= RuleRank(call.result[j].rule)
        /\ \A r \in {"high_volume", "high_cost"} :
              \A i, j \in DOMAIN call.result :
                  (i < j /\ call.result[i].rule = r /\ call.result[j].rule = r) =>
                      \E a, b \in DOMAIN call.args :
                          /\ a < b
                          /\ call.args[a].id = call.result[i].channel
                          /\ call.args[b].id = call.result[j].channel

(***************************************************************************)
(* Touchpoints of an account that has no opportunity.                      *)
(***************************************************************************)
\* indices of the touchpoints whose account has no opportunity
Orphans ==
    {i \in 1..Len(touchpoint_data) :
        \A k \in 1..Len(opportunity_data) :
            opportunity_data[k].account_id # touchpoint_data[i].account_id}

KnownLeadIds == {lead_data[i].lead_id : i \in 1..Len(lead_data)}

\* C24: a touchpoint whose account has no opportunity has no entry in the
\* time-weighted and the account-based map; the stage-progression map has
\* exactly one entry for every input touchpoint, and the quality-weighted map
\* has an entry for a touchpoint exactly when its lead_id is the id of a lead.
OrphanTouchpointsSkipped ==
    call.op \in {"factors", "combine_b2b_attribution_factors"} =>
        /\ \A i \in Orphans :
              /\ touchpoint_data[i].touchpoint_id \notin DOMAIN factors["time"]
              /\ touchpoint_data[i].touchpoint_id \notin DOMAIN factors["account"]
        /\ DOMAIN factors["stage"] =
              {touchpoint_data[i].touchpoint_id : i \in 1..Len(touchpoint_data)}
        /\ Cardinality(DOMAIN factors["stage"]) = Len(touchpoint_data)
        /\ \A i \in 1..Len(touchpoint_data) :
              touchpoint_data[i].touchpoint_id \in DOMAIN factors["quality"]
                  <=> touchpoint_data[i].lead_id \in KnownLeadIds

\* beside a touchpoint with an opportunity and entries in the time-weighted and
\* the account-based map, a touchpoint of engagement 0 without an opportunity
\* and without a lead, which has an entry in the stage-progression map alone
OrphanTouchpointsSkippedWitness ==
    /\ call.op = "factors"
    /\ factors["time"] # EmptyMap /\ factors["account"] # EmptyMap
    /\ \E i \in Orphans :
          /\ touchpoint_data[i].engagement_score = 0
          /\ touchpoint_data[i].lead_id \notin KnownLeadIds
          /\ touchpoint_data[i].touchpoint_id \in DOMAIN factors["stage"]
          /\ \A f \in Factors \ {"stage"} :
                touchpoint_data[i].touchpoint_id \notin DOMAIN factors[f]

(***************************************************************************)
(* The rows _load_b2b_data has loaded when its three queries are done.     *)
(***************************************************************************)
InWindow(day) ==
    /\ (request.date_from # None => day >= request.date_from[1])
    /\ (request.date_to # None => day <= request.date_to[1])

LoadDone == pc \in {"await_commit", "await_rollback", "returned"}

\* C25: the load of a request with a date window returns only opportunities
\* whose close_date is inside the window and only touchpoints whose timestamp
\* is inside it, and with an account filter only leads, opportunities and
\* touchpoints of the accounts of the filter; leads are not filtered by date.
LoadRespectsFilters ==
    LoadDone =>
        /\ \A i \in 1..Len(loaded.touchpoints) : InWindow(loaded.touchpoints[i].timestamp)
        /\ (request.date_from # None \/ request.date_to # None) =>
              \A i \in 1..Len(loaded.conversions) :
                  /\ loaded.conversions[i].close_date # None
                  /\ InWindow(loaded.conversions[i].close_date[1])
        /\ HasAccountFilter(request) =>
              /\ \A i \in 1..Len(loaded.customers) :
                    loaded.customers[i].id \in request.account_ids[1]
              /\ \A i \in 1..Len(loaded.conversions) :
                    loaded.conversions[i].customer_id \in request.account_ids[1]
              /\ \A i \in 1..Len(loaded.touchpoints) :
                    loaded.touchpoints[i].customer_id \in request.account_ids[1]
        /\ ~HasAccountFilter(request) => loaded.customers = db.customers

\* what the load does: touchpoints inside the window, customers and
\* conversions of the accounts of the filter, conversions of every date
LoadAsCoded ==
    LoadDone =>
        /\ \A i \in 1..Len(loaded.touchpoints) : InWindow(loaded.touchpoints[i].timestamp)
        /\ HasAccountFilter(request) =>
              /\ \A i \in 1..Len(loaded.customers) :
                    loaded.customers[i].id \in request.account_ids[1]
              /\ \A i \in 1..Len(loaded.conversions) :
                    loaded.conversions[i].customer_id \in request.account_ids[1]
        /\ ~HasAccountFilter(request) =>
              loaded.customers = db.customers /\ loaded.conversions = db.conversions

(***************************************************************************)
(* The account-based map and the fields of the opportunity that only       *)
(* scale the weights of its touchpoints.                                   *)
(***************************************************************************)
\* values of deal_size_tier, decision_makers_count, influencers_count and
\* sales_cycle_days: a small fast deal, and a mid-market deal with four
\* stakeholders and a cycle over 180 days
ScalingFields == {<<"smb", 1, 0, 60>>, <<"mid-market", 2, 2, 200>>}

\* the opportunities with these fields replaced by those of v
WithScalingFields(opps, v) ==
    [k \in 1..Len(opps) |->
        [opps[k] EXCEPT !.deal_size_tier = v[1],
                        !.decision_makers_count = v[2],
                        !.influencers_count = v[3],
                        !.sales_cycle_days = v[4]]]

\* C26: the map of calculate_account_level_attribution does not depend on
\* deal_size_tier, decision_makers_count, influencers_count or
\* sales_cycle_days: it is the map of the opportunity list in which these
\* fields of every opportunity are replaced by fixed values, so two lists that
\* differ only in these fields have the same map.
AccountLevelIgnoresScaling ==
    call.op = "calculate_account_level_attribution" =>
        \A v \in ScalingFields :
            call.result = calculate_account_level_attribution(
                              WithScalingFields(opportunity_data, v), touchpoint_data)

\* an enterprise deal with six stakeholders and a cycle over a year, whose
\* account has two touchpoints of different value
AccountLevelIgnoresScalingWitness ==
    /\ call.op = "calculate_account_level_attribution"
    /\ \E k \in 1..Len(opportunity_data) :
          /\ opportunity_data[k].deal_size_tier = "enterprise"
          /\ RLt(One, _calculate_account_complexity(opportunity_data[k]))
          /\ OnlyOpportunityOfAccount(k)
          /\ \E a, b \in IdsOf(k) :
                /\ a \in DOMAIN call.result /\ b \in DOMAIN call.result
                /\ RLt(Zero, call.result[a])
                /\ RLt(call.result[a], call.result[b])

(***************************************************************************)
(* get_channel_performance_insights and                                    *)
(* get_sales_marketing_alignment_report called one after the other on one  *)
(* service object and one session that holds an earlier result record.     *)
(* call.op names the operation that runs.  The combined map takes its keys *)
(* from a set (combine_b2b_attribution_factors), so the channels of the    *)
(* roll-up can come in any order.                                          *)
(***************************************************************************)
MaxCalls == 2

ReadOperations ==
    {"get_channel_performance_insights", "get_sales_marketing_alignment_report"}

PriorRecord == [metadata |-> [touchpoints_analyzed |-> 1]]
PriorSession == [added |-> <<>>, committed |-> <<PriorRecord>>, rollbacks |-> 0]

\* the orders a dict can hold the keys S in
Orderings(S) ==
    {f \in [1..Cardinality(S) -> S] : \A i, j \in 1..Cardinality(S) : f[i] = f[j] => i = j}

\* max(channel_analysis.keys(), key=roi): the first of the largest in the
\* order of the dict
BestPerformingChannel(items) ==
    IF items = <<>> THEN None
    ELSE Some(items[CHOOSE i \in 1..Len(items) :
                        /\ \A j \in 1..Len(items) : RLe(items[j].value, items[i].value)
                        /\ \A j \in 1..(i - 1) : RLt(items[j].value, items[i].value)].id)

\* lines 392-405: the insights and the summary of the items of the roll-up
InsightsOfItems(channel_analysis, items, req) ==
    [channels |-> channel_analysis,
     insights |-> _generate_channel_insights(items),
     summary |-> [total_channels |-> Len(items),
                  best_performing_channel |-> BestPerformingChannel(items),
                  analysis_period |->
                      IF req.date_from # None /\ req.date_to # None
                      THEN <<req.date_from[1], req.date_to[1]>>
                      ELSE <<>>]]

\* the roll-up held in this order of its channels
InsightsOfChannels(channel_analysis, order, req) ==
    InsightsOfItems(channel_analysis,
                    [i \in 1..Len(order) |->
                        ChannelItem(order[i], channel_analysis[order[i]].roi,
                                    channel_analysis[order[i]].touchpoint_count,
                                    channel_analysis[order[i]].total_cost)],
                    req)

\* lines 386-390: the channel analysis of the combined map; exc is the
\* ZeroDivisionError of the engine or of the analysis
ChannelAnalysisOfAttribution(attribution_results, tps) ==
    IF attribution_results.exc # None
    THEN [exc |-> attribution_results.exc, channels |-> EmptyMap]
    ELSE analyze_channel_performance(attribution_results.combined_b2b_attribution, tps)

\* lines 380-390: the engine and the channel analysis
ChannelAnalysisOfData(leads, opps, tps) ==
    ChannelAnalysisOfAttribution(b2b_specific_attribution(leads, opps, tps), tps)

ChannelAnalysisOfRows(rows) ==
    ChannelAnalysisOfData(_convert_customers_to_leads(rows.customers),
                          _convert_conversions_to_opportunities(rows.conversions),
                          _convert_touchpoints_to_b2b_format(rows.touchpoints))

ReadDbs ==
    {[touchpoints |-> RowIds(t),
      customers |-> <<CustomerRow("acct_1"), CustomerRow("acct_2")>>,
      conversions |-> RowIds(<<ConversionRow(0, "acct_1", 10, 0, Some(60)),
                               ConversionRow(0, "acct_2", 40, 0, None)>>)] :
        t \in ListsOf(ServiceTouchpointRows, MaxTouchpoints)}

ReadRequests ==
    {[account_ids |-> None, date_from |-> None, date_to |-> None,
      attribution_weights |-> None],
     [account_ids |-> None, date_from |-> Some(40), date_to |-> Some(50),
      attribution_weights |-> None]}

InitRead ==
    /\ db \in ReadDbs
    /\ request \in ReadRequests
    /\ pc = "start"
    /\ loaded = NoRows
    /\ session = PriorSession
    /\ outcome = Pending
    /\ cancel_requested = FALSE
    /\ events = <<>>
    /\ EngineIdle

CallsBegun ==
    Cardinality({i \in 1..Len(events) : events[i] \in ReadOperations})

\* one of the two operations is called, after the one before it has ended:
\* lines 369-375 and 459-465, up to the first query of _load_b2b_data
ReadBegin ==
    /\ pc \in {"start", "returned", "raised"}
    /\ CallsBegun < MaxCalls
    /\ \E op \in ReadOperations :
          /\ call' = [op |-> op, result |-> EmptyMap]
          /\ events' = events \o <<op, "execute">>
    /\ request' \in ReadRequests
    /\ pc' = "await_touchpoints"
    /\ loaded' = NoRows
    /\ outcome' = Pending
    /\ UNCHANGED <<db, session, cancel_requested, lead_data, opportunity_data,
                 touchpoint_data, factors, weights>>

\* a slip of the code: the insights are stored as a result record
InsightsStored ==
    /\ call.op = "get_channel_performance_insights"
    /\ pc = "await_conversions"
    /\ loaded' = [loaded EXCEPT !.conversions = ConversionQuery(db, request)]
    /\ session' = [session EXCEPT !.committed = Append(@, PriorRecord)]
    /\ pc' = "returned"
    /\ outcome' = [kind |-> "success", error |-> None, results |-> Some(EmptyMap)]
    /\ events' = events \o <<"store", "add", "commit", "return">>
    /\ UNCHANGED <<db, request, cancel_requested, engine_vars>>

\* lines 169-177 and 377-405: the conversions arrive and the insights are made
InsightsConversionsLoaded ==
    /\ call.op = "get_channel_performance_insights"
    /\ pc = "await_conversions"
    /\ \E rows \in {[loaded EXCEPT !.conversions = ConversionQuery(db, request)]} :
          /\ loaded' = rows
          /\ IF rows.touchpoints = <<>>
             THEN /\ pc' = "returned"
                  /\ outcome' = [kind |-> "success", error |-> None,
                                 results |-> Some([channels |-> EmptyMap,
                                                   insights |-> "No touchpoint data"])]
                  /\ events' = Append(events, "return")
             ELSE \E analysis \in {ChannelAnalysisOfRows(rows)} :
                    IF analysis.exc # None
                    THEN /\ pc' = "raised"
                         /\ outcome' = [kind |-> "error", error |-> analysis.exc,
                                        results |-> None]
                         /\ events' = events \o <<"engine", "raise">>
                    ELSE \E order \in Orderings(DOMAIN analysis.channels) :
                           /\ pc' = "returned"
                           /\ outcome' =
                                 [kind |-> "success", error |-> None,
                                  results |-> Some(InsightsOfChannels(
                                                  analysis.channels, order, request))]
                           /\ events' = events \o <<"engine", "channel_analysis",
                                                    "return">>
    /\ UNCHANGED <<db, request, session, cancel_requested, engine_vars>>

\* lines 169-177 and 467-493
AlignmentReportLoaded ==
    /\ call.op = "get_sales_marketing_alignment_report"
    /\ ReportConversionsLoaded

NextRead ==
    \/ ReadBegin
    \/ TouchpointsLoaded
    \/ CustomersLoaded
    \/ InsightsConversionsLoaded
    \/ AlignmentReportLoaded
    \/ ReportExecuteRaises

SpecRead == InitRead /\ [][NextRead]_vars

\* C27: the channel-insights and the alignment-report operation never invoke
\* the result writer and never add to, commit or roll back the session: after
\* any sequence of the two, failures while loading included, the persisted
\* result records are those of before.
ReadOperationsKeepSession ==
    /\ session = PriorSession
    /\ \A i \in 1..Len(events) : events[i] \notin {"store", "add", "commit", "rollback"}

\* after an insights call that returned the insights of two channels the
\* report has returned; or a call has failed while loading and the next one
\* has ended
ReadOperationsKeepSessionWitness ==
    /\ CallsBegun = MaxCalls
    /\ pc \in {"returned", "raised"}
    /\ \/ /\ events[1] = "get_channel_performance_insights"
          /\ Occurs(events, "channel_analysis")
          /\ call.op = "get_sales_marketing_alignment_report"
          /\ outcome.kind = "success"
          /\ "grade" \in DOMAIN outcome.results[1]
       \/ /\ Count(events, "raise") = 1
          /\ call.op = "get_channel_performance_insights"
          /\ outcome.kind = "success"
          /\ Len(outcome.results[1].insights) >= 2

(***************************************************************************)
(* The channel roll-up and the entries of the combined map.                *)
(***************************************************************************)
KeysAreTouchpoints ==
    DOMAIN call.args \subseteq
        {touchpoint_data[i].touchpoint_id : i \in 1..Len(touchpoint_data)}

\* the sums of total_attribution and of touchpoint_count over the channels
\* are the sum of the values and the number of the entries of the combined map
RollUpConserves ==
    LET channels == call.result.channels
    IN  /\ RSumOver([c \in DOMAIN channels |-> channels[c].total_attribution],
                    DOMAIN channels)
              = RSumOver(call.args, DOMAIN call.args)
        /\ IntSumOver([c \in DOMAIN channels |-> channels[c].touchpoint_count],
                      DOMAIN channels)
              = Cardinality(DOMAIN call.args)

\* C28: when every key of the combined map is the id of a touchpoint,
\* analyze_channel_performance returns a roll-up in which every entry is
\* counted in one channel: the total_attribution of the channels sum to the
\* sum of the combined values and their touchpoint_count to the number of
\* entries.
ChannelsConserveCombined ==
    (call.op = "analyze_channel_performance" /\ KeysAreTouchpoints) =>
        /\ call.result.exc = None
        /\ RollUpConserves

\* the roll-up conserves the combined map whenever one is returned
ChannelsConserveWhenReturned ==
    (/\ call.op = "analyze_channel_performance"
     /\ KeysAreTouchpoints
     /\ call.result.exc = None) => RollUpConserves

(***************************************************************************)
(* _generate_alignment_recommendations on the analysis of a combined map of *)
(* a sales, a marketing and a joint touchpoint, with values from 0 to      *)
(* MaxShare.                                                               *)
(***************************************************************************)
MaxShare == 10

RecommendationTouchpoints ==
    WithIds(<<Touchpoint("acct_1", 0, "sales_call", 50, TRUE, FALSE),
              Touchpoint("acct_1", 0, "content_download", 50, FALSE, TRUE),
              Touchpoint("acct_1", 0, "demo_request", 50, TRUE, TRUE)>>)

InitRecommendations ==
    /\ touchpoint_data = RecommendationTouchpoints
    /\ call \in {[op |-> "none", result |-> <<>>,
                  args |-> <<Rat(sl, 1), Rat(m, 1), Rat(j, 1)>>] :
                    sl \in 0..MaxShare, m \in 0..MaxShare, j \in 0..MaxShare}
    /\ opportunity_data = <<>>
    /\ lead_data = <<>>
    /\ factors = NoFactors
    /\ weights = None
    /\ ServiceIdle

\* lines 482-489: the alignment analysis and its recommendations
CallRecommendations ==
    /\ call.op = "none"
    /\ \E alignment_analysis \in
            {analyze_sales_marketing_alignment(call.args, touchpoint_data)} :
          call' = [call EXCEPT
                      !.op = "_generate_alignment_recommendations",
                      !.result = [alignment_analysis |-> alignment_analysis,
                                  recommendations |->
                                      _generate_alignment_recommendations(
                                          alignment_analysis)]]
    /\ UNCHANGED <<lead_data, opportunity_data, touchpoint_data, factors, weights,
                 service_vars>>

SpecRecommendations == InitRecommendations /\ [][CallRecommendations]_vars

\* C29: whenever the alignment score is >= 80 the recommendations are the
\* 'excellent alignment' one alone: no rule on the sales, marketing or joint
\* percentage and not the rule on a score below 50 fires with it.
ExcellentAlone ==
    (/\ call.op = "_generate_alignment_recommendations"
     /\ RLe(Rat(80, 1), call.result.alignment_analysis.alignment_score))
        => call.result.recommendations = <<"Excellent alignment">>

\* the split 45/45/10, of score 80 exactly and a joint percentage on the
\* threshold of the joint rule
ExcellentAloneWitness ==
    /\ call.op = "_generate_alignment_recommendations"
    /\ call.result.alignment_analysis.alignment_score = Rat(80, 1)
    /\ call.result.alignment_analysis.joint_percentage = Rat(10, 1)
    /\ call.result.recommendations = <<"Excellent alignment">>

(***************************************************************************)
(* The call from the entry of _store_attribution_results: the record is    *)
(* built and added, the commit is awaited; `except Exception` invokes the  *)
(* rollback and raises the error again.  The session holds an earlier      *)
(* record or none.                                                         *)
(***************************************************************************)
\* AttributionResult(model_name, results, created_at, metadata): lines 340-348
ResultRecord(req) ==
    [model_name |-> "B2B_Marketing_Attribution",
     results |-> [metadata |-> [attribution_weights |-> req.attribution_weights]],
     metadata |-> [account_ids |-> req.account_ids,
                   model_type |-> "b2b_comprehensive"]]

InitStore ==
    /\ db = NoRows
    /\ request \in Requests
    /\ pc = "store"
    /\ loaded = NoRows
    /\ session \in {EmptySession, PriorSession}
    /\ outcome = Pending
    /\ cancel_requested = FALSE
    /\ events = <<>>
    /\ EngineIdle

\* lines 340-351: the record is added to the session and the commit awaited
StoreAdd ==
    /\ pc = "store"
    /\ session' = [session EXCEPT !.added = Append(@, ResultRecord(request))]
    /\ pc' = "await_commit"
    /\ events' = events \o <<"store", "add", "commit">>
    /\ UNCHANGED <<db, request, loaded, outcome, cancel_requested, engine_vars>>

\* lines 340-350 and 355-357: building or adding the record raises; the
\* handler logs and awaits the rollback
StoreAddRaises ==
    /\ pc = "store"
    /\ pc' = "await_rollback"
    /\ events' = events \o <<"store", "add_raised", "rollback">>
    /\ UNCHANGED <<db, request, loaded, session, outcome, cancel_requested,
                 engine_vars>>

NextStore ==
    \/ StoreAdd
    \/ StoreAddRaises
    \/ CommitDone
    \/ CommitRaises
    \/ RollbackDone
    \/ RollbackRaises
    \/ CancelRequest
    \/ CancelDelivered

SpecStore == InitStore /\ [][NextStore]_vars

AddOrCommitRaised == Occurs(events, "add_raised") \/ Occurs(events, "commit_raised")

\* C30: whenever adding or committing the record raises, the rollback of the
\* session is invoked exactly once, before the error leaves the writer, and
\* when the rollback is done no record stays pending in the session; when the
\* commit succeeds the rollback is never invoked.
RollbackOnceOnFailure ==
    /\ AddOrCommitRaised =>
          /\ Count(events, "rollback") = 1
          /\ Occurs(events, "raise") => Pos(events, "rollback") < Pos(events, "raise")
    /\ ~AddOrCommitRaised => ~Occurs(events, "rollback") /\ session.rollbacks = 0
    /\ pc = "raised" =>
          /\ AddOrCommitRaised
          /\ outcome.error = Some("store") =>
                session.added = <<>> /\ session.rollbacks = 1
    /\ pc = "returned" =>
          /\ ~AddOrCommitRaised
          /\ session.added = <<>>
          /\ ResultRecord(request) = session.committed[Len(session.committed)]

\* the commit has raised on a session that holds an earlier record, the
\* rollback is done and the error has left the writer
RollbackOnceOnFailureWitness ==
    /\ pc = "raised"
    /\ Occurs(events, "commit_raised")
    /\ outcome.error = Some("store")
    /\ session = [PriorSession EXCEPT !.rollbacks = 1]

====
